---- MODULE Spec2Model ----
(***************************************************************************)
(* Model of the pixel-grid reconstruction pipeline of Pixel_BRIA:          *)
(*   src/png_to_svg.py        boundary scanners, scan_row_blocks, main     *)
(*   src/pixel_playground.py  _svg_to_editable_png                         *)
(* Coordinates are 0-based as in the code.  An optional value (Python's    *)
(* None or a value) is a sequence of length 0 or 1, except coordinates,    *)
(* where None is <<>> and a pixel is <<x, y>>.  A Python str is a sequence  *)
(* of one-character strings.                                               *)
(***************************************************************************)
EXTENDS Integers, Sequences, FiniteSets, TLC

VARIABLES w, h, img, block_size, pc, coord, last_coord, leftmost_coord,
          rightmost_coord, current_y, row_number, all_rows, svg_out,
          exit_code, editable, calls, image_file, raised,
          np_img, grad_magnitude, has_comparison, op, block_sizes_arg,
          block_size_arg, auto_detect, phase, est_calls, detection, session,
          svg_block_size, result, disk_svg, main_exit,
          cwd, dirs, files, cloud, playground_session, threads, requests,
          max_threads

(* The variables of png_to_svg.main and of the rendering of its SVG *)
mainvars == <<w, h, img, block_size, pc, coord, last_coord, leftmost_coord,
              rightmost_coord, current_y, row_number, all_rows, svg_out,
              exit_code, editable, calls, image_file, raised>>

(* The variables of the block size estimator and of the conversion *)
estvars == <<np_img, grad_magnitude, has_comparison, op, block_sizes_arg,
             block_size_arg, auto_detect, phase, est_calls, detection, session,
             svg_block_size, result, disk_svg, main_exit>>

(* The variables of webapp/server.py: the working directory of the process *)
(* and the directories and files under it, the names in the storage, the   *)
(* session dictionary of the one playground object as the handlers use it, *)
(* the handler threads, and the requests received with their responses.    *)
srvvars == <<cwd, dirs, files, cloud, playground_session, threads, requests,
             max_threads>>

vars == <<mainvars, estvars, srvvars>>

----------------------------------------------------------------------------
(* Bounds of the explored inputs *)

MaxW == 6

MaxH == 5

MaxArea == 6

MaxBlock == 2

MaxLogArea == 4

MaxScale == 2

MaxMargin == 1

TallW == 2

TallH == 5

IOMaxW == 2

IOMaxH == 4

EstMaxW == 3

EstMaxH == 2

GradFreeArea == 4

MaxCandidate == 3

MaxCalls == 8

(* Program constants *)

AlphaMin == 128

DefaultAlphaMin == 1

MaxAlpha == 255

OpacityDigits == 4

None == <<>>

Min2(a, b) == IF a <= b THEN a ELSE b

(* The pixel values the explored images are drawn from: fully transparent, *)
(* opaque green, and a half-transparent red whose alpha sits exactly on    *)
(* the threshold of main.                                                  *)
Transparent == [r |-> 0, g |-> 0, b |-> 0, a |-> 0]

Green == [r |-> 0, g |-> 255, b |-> 0, a |-> 255]

HalfRed == [r |-> 255, g |-> 0, b |-> 10, a |-> 128]

Palette == {Transparent, Green, HalfRed}

(* A pixel whose alpha lies just under the threshold of main *)
Faint == [r |-> 10, g |-> 20, b |-> 30, a |-> 127]

FaintPalette == {Transparent, Faint}

Cells(ww, hh) == (0 .. ww - 1) \X (0 .. hh - 1)

(* Arbitrary rasters of at most MaxW x MaxH and at most MaxArea pixels *)
Shapes == {s \in (1 .. MaxW) \X (1 .. MaxH) : s[1] * s[2] <= MaxArea}

(* Narrow rasters, for the runs in which reads and writes may fail *)
IOShapes == {s \in (1 .. IOMaxW) \X (1 .. IOMaxH) : s[1] * s[2] <= MaxArea}

(* Pixel art: a logical image of at most MaxLogArea cells, each cell drawn *)
(* as a scale x scale square, with a transparent margin on every side.     *)
LogShapes == {s \in (1 .. MaxLogArea) \X (1 .. MaxLogArea) : s[1] * s[2] <= MaxLogArea}

Upscaled(logical, lw, lh, scale, margin) ==
    [c \in Cells(lw * scale + 2 * margin, lh * scale + 2 * margin) |->
        IF /\ c[1] >= margin /\ c[1] < margin + lw * scale
           /\ c[2] >= margin /\ c[2] < margin + lh * scale
        THEN logical[<<(c[1] - margin) \div scale, (c[2] - margin) \div scale>>]
        ELSE Transparent]

Thresholds == {DefaultAlphaMin, AlphaMin, MaxAlpha}

----------------------------------------------------------------------------
(* Strings and number formatting *)

HexChars == <<"0", "1", "2", "3", "4", "5", "6", "7",
              "8", "9", "A", "B", "C", "D", "E", "F">>

(* f"{val:02X}" *)
to_hex(val) == <<HexChars[(val \div 16) + 1], HexChars[(val % 16) + 1]>>

HexVal(c) == CHOOSE d \in 0 .. 15 : HexChars[d + 1] = c

(* int(s, 16) of a two-character string *)
ParseHex2(s) == 16 * HexVal(s[1]) + HexVal(s[2])

(* Unicode code point of the characters a colour string is made of *)
DigitCodePoint(d) == IF d < 10 THEN 48 + d ELSE 55 + d

CodePoint(c) == IF c = "#" THEN 35 ELSE DigitCodePoint(HexVal(c))

(* Python's str < str: lexicographic by code point, a proper prefix first: *)
(* decided at the first position where the strings differ.                 *)
StrLess(s, t) ==
    \/ /\ Len(s) < Len(t)
       /\ \A k \in 1 .. Len(s) : s[k] = t[k]
    \/ \E i \in 1 .. Min2(Len(s), Len(t)) :
          /\ \A k \in 1 .. i - 1 : s[k] = t[k]
          /\ s[i] # t[i]
          /\ CodePoint(s[i]) < CodePoint(t[i])

(* f"#{_to_hex(r)}{_to_hex(g)}{_to_hex(b)}{_to_hex(a)}" *)
RgbaHex(p) == <<"#">> \o to_hex(p.r) \o to_hex(p.g) \o to_hex(p.b) \o to_hex(p.a)

Visible(p, alpha_min_value) == p.a >= alpha_min_value

----------------------------------------------------------------------------
(* Boundary scanners: the visit order of each double loop, and the first   *)
(* pixel of that order that passes the alpha test.                         *)

FirstHit(order, image, alpha_min_value) ==
    LET hits == {i \in DOMAIN order : Visible(image[order[i]], alpha_min_value)}
    IN  IF hits = {} THEN None
        ELSE order[CHOOSE i \in hits : \A j \in hits : i <= j]

(* Variant: the corner of the image is returned when nothing is visible *)
FirstPixelOrOrigin(image, ww, hh, alpha_min_value) ==
    IF \A c \in Cells(ww, hh) : ~Visible(image[c], alpha_min_value)
    THEN <<0, 0>>
    ELSE FirstHit([i \in 1 .. ww * hh |-> <<(i - 1) % ww, (i - 1) \div ww>>],
                  image, alpha_min_value)

find_first_nontransparent_pixel(image, ww, hh, alpha_min_value) ==
    FirstHit([i \in 1 .. ww * hh |-> <<(i - 1) % ww, (i - 1) \div ww>>],
             image, alpha_min_value)

find_last_nontransparent_pixel(image, ww, hh, alpha_min_value) ==
    FirstHit([i \in 1 .. ww * hh |->
                 <<ww - 1 - ((i - 1) % ww), hh - 1 - ((i - 1) \div ww)>>],
             image, alpha_min_value)

(* Variant: the columns loop nested inside the rows loop *)
LeftmostRowMajor(image, ww, hh, alpha_min_value) ==
    FirstHit([i \in 1 .. ww * hh |-> <<(i - 1) % ww, (i - 1) \div ww>>],
             image, alpha_min_value)

find_leftmost_nontransparent_pixel(image, ww, hh, alpha_min_value) ==
    FirstHit([i \in 1 .. ww * hh |-> <<(i - 1) \div hh, (i - 1) % hh>>],
             image, alpha_min_value)

find_rightmost_nontransparent_pixel(image, ww, hh, alpha_min_value) ==
    FirstHit([i \in 1 .. ww * hh |-> <<ww - 1 - ((i - 1) \div hh), (i - 1) % hh>>],
             image, alpha_min_value)

----------------------------------------------------------------------------
(* scan_row_blocks *)

(* The rows of the strip that hold a visible pixel;                        *)
(* search_range = min(block_size, hR - start_y).                           *)
StripRows(image, ww, hh, start_y, bs, alpha_min_value) ==
    {check_y \in start_y .. start_y + Min2(bs, hh - start_y) - 1 :
        \E x_check \in 0 .. ww - 1 :
            Visible(image[<<x_check, check_y>>], alpha_min_value)}

(* The smallest element of a non-empty set of integers, as an optional *)
Lowest(S) == IF S = {} THEN None ELSE <<CHOOSE m \in S : \A n \in S : m <= n>>

(* Variant: the row is snapped to the strip's first line *)
TopmostYAtStripStart(image, ww, hh, start_y, bs, alpha_min_value) ==
    IF StripRows(image, ww, hh, start_y, bs, alpha_min_value) = {} THEN None
    ELSE <<start_y>>

(* STEP 1: the topmost Y of the strip that has any visible pixel, as an    *)
(* optional value.                                                         *)
TopmostY(image, ww, hh, start_y, bs, alpha_min_value) ==
    Lowest(StripRows(image, ww, hh, start_y, bs, alpha_min_value))

(* STEP 2: the leftmost X with a visible pixel on row topmost_y *)
FirstX(image, ww, topmost_y, alpha_min_value) ==
    Lowest({x_search \in 0 .. ww - 1 :
               Visible(image[<<x_search, topmost_y>>], alpha_min_value)})

(* The pixels of one tile in the order the two nested loops visit them:    *)
(* rows dy = 0..block_size-1 until sy >= hR, columns dx until sx >= wR.    *)
(* aw and ah are the actual_w and actual_h the loops end with.             *)
TilePixels(origin_x, origin_y, aw, ah) ==
    IF aw <= 0 \/ ah <= 0 THEN <<>>
    ELSE [i \in 1 .. aw * ah |->
             <<origin_x + ((i - 1) % aw), origin_y + ((i - 1) \div aw)>>]

BlkPixels(origin_x, origin_y, bs, ww, hh) ==
    TilePixels(origin_x, origin_y, Min2(bs, ww - origin_x), Min2(bs, hh - origin_y))

(* Variant: a colour seen again is not counted again *)
CountFirstOnly(dict, hx) ==
    IF \E j \in DOMAIN dict : dict[j].k = hx
    THEN dict
    ELSE Append(dict, [k |-> hx, v |-> 1])

(* blk_color_counts[hx] = blk_color_counts.get(hx, 0) + 1 on the dict kept *)
(* as the sequence of its items in insertion order.                        *)
CountOne(dict, hx) ==
    IF \E j \in DOMAIN dict : dict[j].k = hx
    THEN [j \in DOMAIN dict |->
             IF dict[j].k = hx THEN [k |-> hx, v |-> dict[j].v + 1] ELSE dict[j]]
    ELSE Append(dict, [k |-> hx, v |-> 1])

(* blk_color_counts after the pixels i, i+1, ... have been visited *)
RECURSIVE BlkColorCounts(_, _, _, _, _)
BlkColorCounts(pixels, i, image, alpha_min_value, dict) ==
    IF i > Len(pixels) THEN dict
    ELSE BlkColorCounts(pixels, i + 1, image, alpha_min_value,
                        IF Visible(image[pixels[i]], alpha_min_value)
                        THEN CountOne(dict, RgbaHex(image[pixels[i]]))
                        ELSE dict)

(* Variant: the key is the count alone, key=lambda kv: -kv[1] *)
SortKeyCountOnly(e1, e2) == e1.v > e2.v

(* The sort key (-count, colour string) of line 208, as a strict order *)
SortKeyLess(e1, e2) ==
    \/ e1.v > e2.v
    \/ e1.v = e2.v /\ StrLess(e1.k, e2.k)

InsertAt(acc, n, e) == SubSeq(acc, 1, n) \o <<e>> \o SubSeq(acc, n + 1, Len(acc))

(* sorted(items, key=...): a stable sort; each item goes behind the items  *)
(* whose key is not greater than its own.                                  *)
RECURSIVE SortedItems(_, _, _)
SortedItems(items, i, acc) ==
    IF i > Len(items) THEN acc
    ELSE SortedItems(items, i + 1,
             InsertAt(acc,
                      Cardinality({j \in DOMAIN acc : ~SortKeyLess(items[i], acc[j])}),
                      items[i]))

(* blk_color_coords[k]: the visible pixels of colour k in visit order *)
BlkColorCoords(pixels, image, alpha_min_value, k) ==
    LET Same(c) == /\ Visible(image[c], alpha_min_value)
                   /\ RgbaHex(image[c]) = k
    IN  SelectSeq(pixels, Same)

(* One entry of blk_counts_list *)
CountsEntry(k, v, pixels, image, alpha_min_value) ==
    [rgba_hex |-> k,
     rgb_hex  |-> SubSeq(k, 1, 7),
     a        |-> ParseHex2(SubSeq(k, Len(k) - 1, Len(k))),
     count    |-> v,
     coords   |-> BlkColorCoords(pixels, image, alpha_min_value, k)]

CountsEntries(items, pixels, image, alpha_min_value) ==
    [i \in DOMAIN items |->
        CountsEntry(items[i].k, items[i].v, pixels, image, alpha_min_value)]

(* blk_counts_list *)
BlkCountsList(pixels, image, alpha_min_value) ==
    CountsEntries(
        SortedItems(BlkColorCounts(pixels, 1, image, alpha_min_value, <<>>), 1, <<>>),
        pixels, image, alpha_min_value)

(* The dictionary appended for a tile *)
BlockRecord(bi, origin_x, origin_y, aw, ah, visible, skipped, counts) ==
    [index          |-> bi,
     origin         |-> [x |-> origin_x, y |-> origin_y],
     actual_size    |-> [w |-> aw, h |-> ah],
     visible_pixels |-> visible,
     skipped_pixels |-> skipped,
     unique_colors  |-> Len(counts),
     color_counts   |-> counts]

BlockOfPixels(image, bi, origin_x, origin_y, aw, ah, pixels, alpha_min_value) ==
    BlockRecord(bi, origin_x, origin_y, aw, ah,
        Cardinality({i \in DOMAIN pixels :
                        Visible(image[pixels[i]], alpha_min_value)}),
        Cardinality({i \in DOMAIN pixels :
                        ~Visible(image[pixels[i]], alpha_min_value)}),
        BlkCountsList(pixels, image, alpha_min_value))

(* The block dictionary of tile bi of a row anchored at (first_x, y) *)
ScanBlock(image, ww, hh, bi, first_x, origin_y, bs, alpha_min_value) ==
    BlockOfPixels(image, bi, first_x + bi * bs, origin_y,
                  Min2(bs, ww - (first_x + bi * bs)), Min2(bs, hh - origin_y),
                  BlkPixels(first_x + bi * bs, origin_y, bs, ww, hh),
                  alpha_min_value)

(* if visible > 0: row_blocks.append(...) *)
AppendIfVisible(row_blocks, blk) ==
    IF blk.visible_pixels > 0 THEN Append(row_blocks, blk) ELSE row_blocks

(* Variant: the loop ends at the first tile without a visible pixel *)
RECURSIVE ScanTilesUntilGap(_, _, _, _, _, _, _, _, _)
ScanTilesUntilGap(image, ww, hh, bi, first_x, origin_y, bs, alpha_min_value, row_blocks) ==
    IF first_x + bi * bs >= ww THEN row_blocks
    ELSE IF Len(AppendIfVisible(row_blocks,
                    ScanBlock(image, ww, hh, bi, first_x, origin_y, bs,
                              alpha_min_value))) = Len(row_blocks)
    THEN row_blocks
    ELSE ScanTilesUntilGap(image, ww, hh, bi + 1, first_x, origin_y, bs,
                           alpha_min_value,
                           AppendIfVisible(row_blocks,
                               ScanBlock(image, ww, hh, bi, first_x, origin_y, bs,
                                         alpha_min_value)))

(* The while True loop: tiles bi = 0, 1, ... while origin_x < wR; a tile   *)
(* is appended only if visible > 0.                                        *)
RECURSIVE ScanTiles(_, _, _, _, _, _, _, _, _)
ScanTiles(image, ww, hh, bi, first_x, origin_y, bs, alpha_min_value, row_blocks) ==
    IF first_x + bi * bs >= ww THEN row_blocks
    ELSE ScanTiles(image, ww, hh, bi + 1, first_x, origin_y, bs, alpha_min_value,
                   AppendIfVisible(row_blocks,
                       ScanBlock(image, ww, hh, bi, first_x, origin_y, bs,
                                 alpha_min_value)))

(* Variant: the visible fraction is taken of the tile's actual area *)
IsSparseOfActualArea(blk, bs) ==
    2 * blk.visible_pixels < blk.actual_size.w * blk.actual_size.h

(* visibility_percent < 0.5 with total_pixels_in_block = block_size^2 *)
IsSparse(blk, bs) == 2 * blk.visible_pixels < bs * bs

(* Variant: every sparse block is dropped, wherever it stands in the row *)
DropAllSparse(row_blocks, bs) ==
    LET Dense(blk) == ~IsSparse(blk, bs) IN SelectSeq(row_blocks, Dense)

(* The trailing-block filter: pop from the end while the last is sparse *)
RECURSIVE TrimTrailing(_, _)
TrimTrailing(row_blocks, bs) ==
    IF row_blocks = <<>> THEN row_blocks
    ELSE IF IsSparse(row_blocks[Len(row_blocks)], bs)
    THEN TrimTrailing(SubSeq(row_blocks, 1, Len(row_blocks) - 1), bs)
    ELSE row_blocks

AnchorAt(fx, ty) == IF fx = None THEN None ELSE <<fx[1], ty[1]>>

AnchorOnRow(image, ww, ty, alpha_min_value) ==
    IF ty = None THEN None
    ELSE AnchorAt(FirstX(image, ww, ty[1], alpha_min_value), ty)

(* (first_x, topmost_y) of the strip: <<x, y>>, or None when the strip    *)
(* has no visible pixel (lines 116-142).                                   *)
RowAnchor(image, ww, hh, start_y, bs, alpha_min_value) ==
    AnchorOnRow(image, ww, TopmostY(image, ww, hh, start_y, bs, alpha_min_value),
                alpha_min_value)

(* The returned dictionary, lines 250-260 *)
RowRecord(bs, an, row_blocks) ==
    [block_size   |-> bs,
     blocks       |-> row_blocks,
     total_blocks |-> Len(row_blocks),
     first_pixel  |-> [x |-> an[1], y |-> an[2]],
     last_pixel_visited |->
         <<row_blocks[Len(row_blocks)].origin.x + bs - 1,
           row_blocks[Len(row_blocks)].origin.y + bs - 1>>]

(* Lines 227-260: None, or the row of the blocks left by the filter *)
RowOrNone(bs, an, row_blocks) ==
    IF row_blocks = <<>> THEN None ELSE <<RowRecord(bs, an, row_blocks)>>

CallRecord(start_y, bs, an, scanned) ==
    [start_y |-> start_y,
     anchor  |-> an,
     scanned |-> scanned,
     row     |-> RowOrNone(bs, an, TrimTrailing(scanned, bs))]

ScanFrom(image, ww, hh, start_y, bs, alpha_min_value, an) ==
    CallRecord(start_y, bs, an,
        IF an = None THEN <<>>
        ELSE ScanTiles(image, ww, hh, 0, an[1], an[2], bs, alpha_min_value, <<>>))

(* One call of scan_row_blocks: the anchor it finds, the blocks its loop  *)
(* appends, and the value it returns (None, or the row dictionary).        *)
ScanCall(image, ww, hh, start_y, bs, alpha_min_value) ==
    ScanFrom(image, ww, hh, start_y, bs, alpha_min_value,
             RowAnchor(image, ww, hh, start_y, bs, alpha_min_value))

scan_row_blocks(image, ww, hh, start_y, bs, alpha_min_value) ==
    ScanCall(image, ww, hh, start_y, bs, alpha_min_value).row

----------------------------------------------------------------------------
(* The SVG document written by main.  Attribute values are strings, as in  *)
(* the file; fill-opacity is kept as its number of 10^-OpacityDigits.      *)

RECURSIVE NatToStr(_)
NatToStr(n) ==
    IF n < 10 THEN <<HexChars[n + 1]>>
    ELSE NatToStr(n \div 10) \o <<HexChars[(n % 10) + 1]>>

(* f"{n}" of an int *)
IntToStr(n) == IF n < 0 THEN <<"-">> \o NatToStr(0 - n) ELSE NatToStr(n)

RECURSIVE ParseNat(_, _, _)
ParseNat(s, i, acc) ==
    IF i > Len(s) THEN acc ELSE ParseNat(s, i + 1, 10 * acc + HexVal(s[i]))

(* int(float(s)) of the decimal text of an integer *)
ParseInt(s) ==
    IF s[1] = "-" THEN 0 - ParseNat(s, 2, 0) ELSE ParseNat(s, 1, 0)

RECURSIVE Pow10(_)
Pow10(n) == IF n = 0 THEN 1 ELSE 10 * Pow10(n - 1)

(* round(a_val / 255.0, 4) in units of 10^-4.  a * 10^4 / 255 is never     *)
(* halfway between two integers, so the rounding mode does not matter.     *)
FillOpacity(a_val) ==
    (2 * a_val * Pow10(OpacityDigits) + MaxAlpha) \div (2 * MaxAlpha)

(* int(a / b) for b > 0: true division, then truncation toward zero *)
TruncDiv(a, b) == IF a >= 0 THEN a \div b ELSE 0 - ((0 - a) \div b)

(* left_ref, line 330 *)
LeftRef(rows, leftmost) ==
    IF leftmost # None THEN leftmost[1] ELSE rows[1].blocks[1].origin.x

(* top_ref, line 331 *)
TopRef(rows) == rows[1].blocks[1].origin.y

(* Variant: the column is counted from the image's left edge *)
RectXFromImageEdge(img_x, left_ref, bs) == img_x \div bs

(* rect_x, line 346 *)
RectX(img_x, left_ref, bs) == (img_x - left_ref) \div bs

(* Variant: the row is counted from the image's top edge *)
RectYFromImageEdge(img_y, top_ref, bs) == img_y \div bs

(* rect_y, line 347 *)
RectY(img_y, top_ref, bs) == (img_y - top_ref) \div bs

(* The rectangle emitted for one block, lines 339-350 *)
BlockRect(rb, left_ref, top_ref, bs) ==
    LET top_color == rb.color_counts[1]
    IN  [x            |-> IntToStr(RectX(rb.origin.x, left_ref, bs)),
         y            |-> IntToStr(RectY(rb.origin.y, top_ref, bs)),
         width        |-> IntToStr(1),
         height       |-> IntToStr(1),
         fill         |-> top_color.rgb_hex,
         fill_opacity |-> FillOpacity(top_color.a)]

(* The rectangles of one row; a block without colours is skipped *)
RowRects(row, left_ref, top_ref, bs) ==
    LET HasColors(rb) == rb.color_counts # <<>>
        kept == SelectSeq(row.blocks, HasColors)
    IN  [i \in DOMAIN kept |-> BlockRect(kept[i], left_ref, top_ref, bs)]

(* rects, lines 332-350: rows in order, blocks in order *)
RECURSIVE AllRects(_, _, _, _, _)
AllRects(rows, i, left_ref, top_ref, bs) ==
    IF i > Len(rows) THEN <<>>
    ELSE RowRects(rows[i], left_ref, top_ref, bs)
         \o AllRects(rows, i + 1, left_ref, top_ref, bs)

(* Variant: the + 1 is forgotten *)
CanvasWShort(right_ref, left_ref, bs) == TruncDiv(right_ref - left_ref, bs)

(* canvas_w, line 355 *)
CanvasW(right_ref, left_ref, bs) == TruncDiv(right_ref - left_ref, bs) + 1

(* canvas_h, line 356 *)
CanvasH(last_y_coord, top_ref, bs) == TruncDiv(last_y_coord - top_ref, bs) + 1

(* svg_content, lines 359-364 *)
SvgContent(rows, leftmost, rightmost, last, bs) ==
    LET left_ref == LeftRef(rows, leftmost)
        top_ref == TopRef(rows)
        canvas_w == CanvasW(rightmost[1], left_ref, bs)
        canvas_h == CanvasH(last[2], top_ref, bs)
    IN  [viewBox |-> <<IntToStr(0), IntToStr(0),
                       IntToStr(canvas_w), IntToStr(canvas_h)>>,
         width   |-> IntToStr(canvas_w),
         height  |-> IntToStr(canvas_h),
         rects   |-> AllRects(rows, 1, left_ref, top_ref, bs)]

----------------------------------------------------------------------------
(* _svg_to_editable_png *)

White == <<255, 255, 255>>

Black == <<0, 0, 0>>

(* The colour a rectangle is painted in, lines 863-869 of the method *)
FillColor(fill) ==
    IF Len(fill) = 7 /\ fill[1] = "#"
    THEN <<ParseHex2(SubSeq(fill, 2, 3)), ParseHex2(SubSeq(fill, 4, 5)),
           ParseHex2(SubSeq(fill, 6, 7))>>
    ELSE Black

(* Variant: the fill is laid over the pixel beneath in proportion to the   *)
(* rectangle's fill-opacity                                                *)
PaintRectBlended(pixels, rect, vb_width, vb_height) ==
    LET x == ParseInt(rect.x)
        y == ParseInt(rect.y)
        rw == ParseInt(rect.width)
        rh == ParseInt(rect.height)
        color == FillColor(rect.fill)
        full == Pow10(OpacityDigits)
    IN  [c \in DOMAIN pixels |->
            IF /\ c[1] >= x /\ c[1] < Min2(x + rw, vb_width)
               /\ c[2] >= y /\ c[2] < Min2(y + rh, vb_height)
            THEN [k \in 1 .. 3 |->
                     (color[k] * rect.fill_opacity
                        + pixels[c][k] * (full - rect.fill_opacity)) \div full]
            ELSE pixels[c]]

(* The value of an attribute the element does not have *)
Absent == <<"absent">>

DecimalDigits == {HexChars[i] : i \in 1 .. 10}

(* float(s) takes the text: here the decimal text of an integer *)
IsNumber(s) ==
    /\ s # <<>>
    /\ s # <<"-">>
    /\ \A i \in DOMAIN s : s[i] \in DecimalDigits \/ (i = 1 /\ s[i] = "-")

(* int(float(rect.get(name, default))): the integer as an optional value,  *)
(* None when float() raises ValueError.                                    *)
AttrInt(value, default) ==
    IF value = Absent THEN <<default>>
    ELSE IF IsNumber(value) THEN <<ParseInt(value)>>
    ELSE None

(* The two range() loops of one rectangle; `except: continue` leaves the   *)
(* raster as it is when an attribute could not be read.  Coordinates are   *)
(* not negative here.                                                      *)
PaintAt(pixels, x, y, rw, rh, color, vb_width, vb_height) ==
    IF x = None \/ y = None \/ rw = None \/ rh = None THEN pixels
    ELSE [c \in DOMAIN pixels |->
            IF /\ c[1] >= x[1] /\ c[1] < Min2(x[1] + rw[1], vb_width)
               /\ c[2] >= y[1] /\ c[2] < Min2(y[1] + rh[1], vb_height)
            THEN color ELSE pixels[c]]

(* One pass of the loop over the rectangles, lines 855-876 *)
PaintRect(pixels, rect, vb_width, vb_height) ==
    PaintAt(pixels, AttrInt(rect.x, 0), AttrInt(rect.y, 0),
            AttrInt(rect.width, 1), AttrInt(rect.height, 1),
            FillColor(rect.fill), vb_width, vb_height)

RECURSIVE PaintRects(_, _, _, _, _)
PaintRects(pixels, rects, i, vb_width, vb_height) ==
    IF i > Len(rects) THEN pixels
    ELSE PaintRects(PaintRect(pixels, rects[i], vb_width, vb_height),
                    rects, i + 1, vb_width, vb_height)

svg_to_editable_png(svg) ==
    LET vb_width == ParseInt(svg.viewBox[3])
        vb_height == ParseInt(svg.viewBox[4])
    IN  [w  |-> vb_width,
         h  |-> vb_height,
         px |-> PaintRects([c \in Cells(vb_width, vb_height) |-> White],
                           svg.rects, 1, vb_width, vb_height)]

----------------------------------------------------------------------------
(* The block size estimator of pixel_playground.py.  The numbers the code  *)
(* holds as floats are exact fractions [n, d] in lowest terms, n >= 0 and  *)
(* d > 0; the rounding of float arithmetic is not modelled.                *)

RECURSIVE Gcd(_, _)
Gcd(a, b) == IF b = 0 THEN a ELSE Gcd(b, a % b)

Reduced(n, d, g) == [n |-> n \div g, d |-> d \div g]

Frac(n, d) == Reduced(n, d, Gcd(n, d))

Zero == [n |-> 0, d |-> 1]

One == [n |-> 1, d |-> 1]

FracLess(a, b) == a.n * b.d < b.n * a.d

FracAdd(a, b) == Frac(a.n * b.d + b.n * a.d, a.d * b.d)

FracMul(a, b) == Frac(a.n * b.n, a.d * b.d)

(* a / b for b > 0 *)
FracDiv(a, b) == Frac(a.n * b.d, a.d * b.n)

RECURSIVE SumFrom(_, _)
SumFrom(seq, i) ==
    IF i > Len(seq) THEN Zero ELSE FracAdd(seq[i], SumFrom(seq, i + 1))

(* np.mean(values) if values else 0 *)
MeanOrZero(seq) ==
    IF seq = <<>> THEN Zero ELSE FracDiv(SumFrom(seq, 1), Frac(Len(seq), 1))

(* The pixel values of the RGB arrays analysed: a grey and a saturated red *)
Mid == <<128, 128, 128>>

Red == <<220, 0, 0>>

EstPalette == {Mid, Red}

(* The array np.array(Image.open(input_png).convert('RGB')) *)
EstShapes == (1 .. EstMaxW) \X (1 .. EstMaxH)

EstImages ==
    UNION {[w : {s[1]}, h : {s[2]}, px : [Cells(s[1], s[2]) -> EstPalette]] :
              s \in EstShapes}

IsFlat(image) == \A c, e \in DOMAIN image.px : image.px[c] = image.px[e]

(* The values grad_magnitude takes at a pixel: 0, 0.0005 and 0.002.  The   *)
(* Sobel filter of cv2 is not computed: its output is an input, zero       *)
(* everywhere on an image of one colour; on the images of more than        *)
(* GradFreeArea pixels only the maps of one value are explored.            *)
GradValues == {Zero, [n |-> 1, d |-> 2000], [n |-> 1, d |-> 500]}

GradMaps(image) ==
    IF IsFlat(image) THEN {[c \in DOMAIN image.px |-> Zero]}
    ELSE IF image.w * image.h <= GradFreeArea THEN [DOMAIN image.px -> GradValues]
    ELSE {[c \in DOMAIN image.px |-> v] : v \in GradValues}

(* for y in range(h): for x in range(w) *)
RowMajor(ww, hh) == [i \in 1 .. ww * hh |-> <<(i - 1) % ww, (i - 1) \div ww>>]

(* on_x_boundary or on_y_boundary *)
OnBoundary(c, bs) ==
    \/ c[1] % bs = 0 \/ c[1] % bs = bs - 1
    \/ c[2] % bs = 0 \/ c[2] % bs = bs - 1

ValuesAt(cells, grad) == [i \in DOMAIN cells |-> grad[cells[i]]]

boundary_gradients(image, grad, bs) ==
    LET On(c) == OnBoundary(c, bs)
    IN  ValuesAt(SelectSeq(RowMajor(image.w, image.h), On), grad)

inside_gradients(image, grad, bs) ==
    LET Off(c) == ~OnBoundary(c, bs)
    IN  ValuesAt(SelectSeq(RowMajor(image.w, image.h), Off), grad)

(* _compute_gradient_at_positions: (avg_boundary, avg_inside) *)
compute_gradient_at_positions(image, grad, bs) ==
    [avg_boundary |-> MeanOrZero(boundary_gradients(image, grad, bs)),
     avg_inside   |-> MeanOrZero(inside_gradients(image, grad, bs))]

(* img[y1:y2, x1:x2] flattened: every channel of every pixel of the block *)
BlockValues(image, x1, y1, bs) ==
    [i \in 1 .. 3 * bs * bs |->
        image.px[<<x1 + (((i - 1) \div 3) % bs), y1 + (((i - 1) \div 3) \div bs)>>]
                [((i - 1) % 3) + 1]]

RECURSIVE Sum(_, _)
Sum(vals, i) == IF i > Len(vals) THEN 0 ELSE vals[i] + Sum(vals, i + 1)

RECURSIVE SumSq(_, _)
SumSq(vals, i) == IF i > Len(vals) THEN 0 ELSE vals[i] * vals[i] + SumSq(vals, i + 1)

(* n^2 times the variance of n values with sum s and sum of squares q *)
ScaledVariance(n, s, q) == n * q - s * s

(* min(np.std(block) / 100.0, 1.0) in hundredths, for a scaled variance v  *)
(* of n values: 0 only for a deviation of 0, 100 only for a deviation of   *)
(* 100 or more, and in between the whole hundredths of it, at least 1.     *)
DeviationHundredths(v, n) ==
    IF v = 0 THEN 0
    ELSE IF v >= 10000 * n * n THEN 100
    ELSE CHOOSE k \in 1 .. 99 :
            /\ k = 1 \/ (k * n) * (k * n) <= v
            /\ v < ((k + 1) * n) * ((k + 1) * n)

(* uniformity = 1.0 - min(block_std / 100.0, 1.0) of one block *)
BlockUniformity(vals) ==
    Frac(100 - DeviationHundredths(
                   ScaledVariance(Len(vals), Sum(vals, 1), SumSq(vals, 1)), Len(vals)),
         100)

UniformityScores(image, bs, blocks_x, blocks_y) ==
    [k \in 1 .. blocks_x * blocks_y |->
        BlockUniformity(BlockValues(image, ((k - 1) % blocks_x) * bs,
                                    ((k - 1) \div blocks_x) * bs, bs))]

(* _compute_block_uniformity_score *)
compute_block_uniformity_score(image, bs) ==
    IF image.w \div bs = 0 \/ image.h \div bs = 0 THEN Zero
    ELSE MeanOrZero(UniformityScores(image, bs, image.w \div bs, image.h \div bs))

(* The 0.001 of _compute_boundary_contrast *)
Thousandth == [n |-> 1, d |-> 1000]

(* Variant: the flat interior always divides by 0.001 *)
ContrastAlwaysDivides(avg_boundary, avg_inside) ==
    IF FracLess(avg_inside, Thousandth) THEN FracDiv(avg_boundary, Thousandth)
    ELSE FracDiv(avg_boundary, avg_inside)

(* Lines 523-530, on the two averages of line 521 *)
BoundaryContrast(avg_boundary, avg_inside) ==
    IF FracLess(avg_inside, Thousandth)
    THEN IF FracLess(Zero, avg_boundary) THEN FracDiv(avg_boundary, Thousandth)
         ELSE One
    ELSE FracDiv(avg_boundary, avg_inside)

ContrastOf(g) == BoundaryContrast(g.avg_boundary, g.avg_inside)

(* _compute_boundary_contrast *)
compute_boundary_contrast(image, grad, bs) ==
    ContrastOf(compute_gradient_at_positions(image, grad, bs))

AnalysisRecord(bs, g, uniformity, boundary_ratio) ==
    [block_size        |-> bs,
     uniformity        |-> uniformity,
     boundary_gradient |-> g.avg_boundary,
     inside_gradient   |-> g.avg_inside,
     boundary_ratio    |-> boundary_ratio]

(* _analyze_block_size *)
analyze_block_size(image, grad, bs) ==
    AnalysisRecord(bs, compute_gradient_at_positions(image, grad, bs),
                   compute_block_uniformity_score(image, bs),
                   compute_boundary_contrast(image, grad, bs))

(* block_sizes = [8, 16, 24, 32] when none is given *)
DefaultBlockSizes == <<8, 16, 24, 32>>

(* Variant: the candidates are analysed in the order they were supplied *)
AsSupplied(sizes, i, acc) == sizes

(* sorted(block_sizes): ascending, each size behind those not above it *)
RECURSIVE SortedSizes(_, _, _)
SortedSizes(sizes, i, acc) ==
    IF i > Len(sizes) THEN acc
    ELSE SortedSizes(sizes, i + 1,
             InsertAt(acc, Cardinality({j \in DOMAIN acc : acc[j] <= sizes[i]}),
                      sizes[i]))

(* {**r, 'combined_score': r['uniformity'] * r['boundary_ratio']} *)
Scored(r) ==
    [block_size        |-> r.block_size,
     uniformity        |-> r.uniformity,
     boundary_gradient |-> r.boundary_gradient,
     inside_gradient   |-> r.inside_gradient,
     boundary_ratio    |-> r.boundary_ratio,
     combined_score    |-> FracMul(r.uniformity, r.boundary_ratio)]

(* Variant: an ascending sort turned round, which turns the ties round too *)
RECURSIVE SortedAscendingReversed(_, _, _)
SortedAscendingReversed(items, i, acc) ==
    IF i > Len(items) THEN acc
    ELSE SortedAscendingReversed(items, i + 1,
             InsertAt(acc,
                      Cardinality({j \in DOMAIN acc :
                          FracLess(items[i].combined_score, acc[j].combined_score)}),
                      items[i]))

(* scored_results.sort(key=combined_score, reverse=True): a stable sort,   *)
(* each entry behind the entries whose score is not below its own.         *)
RECURSIVE SortedByScore(_, _, _)
SortedByScore(items, i, acc) ==
    IF i > Len(items) THEN acc
    ELSE SortedByScore(items, i + 1,
             InsertAt(acc,
                      Cardinality({j \in DOMAIN acc :
                          ~FracLess(acc[j].combined_score, items[i].combined_score)}),
                      items[i]))

AnalyseAll(image, grad, sizes) ==
    [i \in DOMAIN sizes |-> analyze_block_size(image, grad, sizes[i])]

ScoreAll(results) == [i \in DOMAIN results |-> Scored(results[i])]

(* The returned dictionary: best_result = scored_results[0] *)
Detected(results, scored_results) ==
    <<[results         |-> results,
       best_block_size |-> scored_results[1].block_size,
       analysis        |-> scored_results[1]]>>

DetectedFrom(results) ==
    Detected(results, SortedByScore(ScoreAll(results), 1, <<>>))

(* find_best_block_size: None without the comparison libraries, else the  *)
(* dictionary it returns.                                                  *)
find_best_block_size(image, grad, has_cmp, block_sizes) ==
    IF ~has_cmp THEN None
    ELSE DetectedFrom(AnalyseAll(image, grad,
             SortedSizes(IF block_sizes = None THEN DefaultBlockSizes
                         ELSE block_sizes[1], 1, <<>>)))

(* self.session["detected_block_size"] = best_block_size *)
SessionAfter(sess, detected) ==
    IF detected = None THEN sess
    ELSE [sess EXCEPT !.detected_block_size = <<detected[1].best_block_size>>]

(* block_size = 16 when none is given or detected *)
DefaultBlockSize == 16

(* Lines 679-685 of convert_to_perfect_pixelart *)
ResolvedBlockSize(supplied, detected) ==
    IF supplied # None THEN supplied[1]
    ELSE IF detected # None THEN detected[1].best_block_size
    ELSE DefaultBlockSize

(* The session dictionary of a new playground, lines 146-158 *)
NewSession ==
    [detected_block_size |-> None, svg_file |-> None,
     rasterized_png_file |-> None, editable_png_file |-> None]

(* How the png_to_svg subprocess of _generate_svg can end for a block      *)
(* size: exit code 0 with the SVG written, 2 (no visible content) or 3 (no *)
(* row kept) without it; for a size of 0 or less the strip loop of main    *)
(* never ends unless main returns before it (None: no exit code).          *)
MainExits(bs) ==
    IF bs <= 0 THEN {None, <<2>>} ELSE {<<0>>, <<2>>, <<3>>}

(* What is at output_svg after the subprocess: its own SVG when it exited  *)
(* with 0, else whatever was there before.  A file is named by the image   *)
(* it was made from.                                                       *)
FileAfter(disk, exit) == IF exit = <<0>> THEN <<"this image">> ELSE disk

(* _generate_svg, lines 813-830: a non-zero return code is printed, the    *)
(* value returned is os.path.exists(output_svg).                           *)
generate_svg(disk, exit) == FileAfter(disk, exit) # None

(* The handler threads of the server, the directory the server was started *)
(* in, and the number of requests a run of the model receives.             *)
Threads == {1, 2}

BaseDir == 0

MaxRequests == 4

MaxParallelRequests == 3

(* The requests of a run: fewer when two of them can be handled at a time  *)
RequestsOf(pool) == IF pool = 1 THEN MaxRequests ELSE MaxParallelRequests

IdleThread == [pc |-> "idle", req |-> 0, work_dir |-> BaseDir, prev |-> BaseDir,
               status |-> 0]

(* The server before its first request: nothing in the session keys the    *)
(* handlers read, no temporary directory.                                  *)
ServerIdle ==
    /\ cwd = BaseDir
    /\ dirs = {BaseDir}
    /\ files = {}
    /\ cloud = {}
    /\ playground_session = [last_web_image |-> None, editable_png_file |-> None]
    /\ threads = [t \in Threads |-> IdleThread]
    /\ requests = <<>>
    /\ max_threads = 1

(* The state of the playground before any of its methods is called *)
EstimatorIdle ==
    /\ np_img = [w |-> 1, h |-> 1, px |-> [c \in Cells(1, 1) |-> Mid]]
    /\ grad_magnitude = [c \in Cells(1, 1) |-> Zero]
    /\ has_comparison = TRUE
    /\ op = "main"
    /\ block_sizes_arg = None
    /\ block_size_arg = None
    /\ auto_detect = TRUE
    /\ phase = "ready"
    /\ est_calls = 0
    /\ detection = None
    /\ session = NewSession
    /\ svg_block_size = None
    /\ result = None
    /\ disk_svg = None
    /\ main_exit = None

----------------------------------------------------------------------------
(* png_to_svg.main as a state machine, followed by the rendering of the    *)
(* written SVG.                                                            *)

(* The state of main at its first statement; the image file is not       *)
(* changed by the program.                                                 *)
Started ==
    /\ pc = "start"
    /\ coord = None
    /\ last_coord = None
    /\ leftmost_coord = None
    /\ rightmost_coord = None
    /\ current_y = 0
    /\ row_number = 1
    /\ all_rows = <<>>
    /\ svg_out = None
    /\ exit_code = None
    /\ editable = None
    /\ calls = <<>>
    /\ raised = {}

InitRaster ==
    /\ \E s \in Shapes : w = s[1] /\ h = s[2]
    /\ img \in [Cells(w, h) -> Palette]
    /\ block_size \in 1 .. MaxBlock
    /\ image_file = "valid"
    /\ Started
    /\ EstimatorIdle
    /\ ServerIdle

InitPixelArt ==
    /\ \E s \in LogShapes, scale \in 1 .. MaxScale, margin \in 0 .. MaxMargin :
          /\ w = s[1] * scale + 2 * margin
          /\ h = s[2] * scale + 2 * margin
          /\ \E logical \in [Cells(s[1], s[2]) -> Palette] :
                img = Upscaled(logical, s[1], s[2], scale, margin)
    /\ block_size \in 1 .. MaxBlock
    /\ image_file = "valid"
    /\ Started
    /\ EstimatorIdle
    /\ ServerIdle

(* Rasters none of whose pixels reaches the threshold of main *)
InitFaint ==
    /\ \E s \in Shapes : w = s[1] /\ h = s[2]
    /\ img \in [Cells(w, h) -> FaintPalette]
    /\ block_size \in 1 .. MaxBlock
    /\ image_file = "valid"
    /\ Started
    /\ EstimatorIdle
    /\ ServerIdle

Init == InitRaster \/ InitPixelArt \/ InitFaint

(* Tall narrow rasters scanned at the largest block size *)
InitTall ==
    /\ w = TallW
    /\ h = TallH
    /\ img \in [Cells(w, h) -> Palette]
    /\ block_size = MaxBlock
    /\ image_file = "valid"
    /\ Started
    /\ EstimatorIdle
    /\ ServerIdle

(* Narrow rasters behind an --image path that may name no file, or a file  *)
(* that is not an image.  The raster of such a path is never read.         *)
InitIO ==
    /\ \E s \in IOShapes : w = s[1] /\ h = s[2]
    /\ img \in [Cells(w, h) -> Palette]
    /\ block_size \in 1 .. MaxBlock
    /\ image_file \in {"valid", "missing", "unreadable"}
    /\ image_file # "valid" => w = 1 /\ h = 1 /\ img[<<0, 0>>] = Transparent
    /\ Started
    /\ EstimatorIdle
    /\ ServerIdle

(* The value main returns for each kind of whole-image failure: 3 at lines *)
(* 280, 289 and 304 (input), 2 at lines 293, 308 and 327 (empty content),  *)
(* 3 at line 371 (write).                                                  *)
ExitCodeOf(kind) ==
    CASE kind = "input" -> 3
      [] kind = "empty" -> 2
      [] kind = "write" -> 3

(* Lines 277-280: os.path.isfile(args.image) is false *)
FileNotFound ==
    /\ pc = "start"
    /\ image_file = "missing"
    /\ pc' = "done"
    /\ exit_code' = <<ExitCodeOf("input")>>
    /\ UNCHANGED <<w, h, img, block_size, coord, last_coord, leftmost_coord,
                   rightmost_coord, current_y, row_number, all_rows, svg_out,
                   editable, calls, image_file, raised>>
    /\ UNCHANGED <<estvars, srvvars>>

(* Lines 286-289: Image.open raises in find_first_nontransparent_pixel *)
OpenFails ==
    /\ pc = "start"
    /\ image_file = "unreadable"
    /\ pc' = "done"
    /\ exit_code' = <<ExitCodeOf("input")>>
    /\ UNCHANGED <<w, h, img, block_size, coord, last_coord, leftmost_coord,
                   rightmost_coord, current_y, row_number, all_rows, svg_out,
                   editable, calls, image_file, raised>>
    /\ UNCHANGED <<estvars, srvvars>>

(* Lines 285-315: the four boundary scans; exit 2 when nothing is visible *)
FindBoundaries ==
    /\ pc = "start"
    /\ image_file = "valid"
    /\ coord' = find_first_nontransparent_pixel(img, w, h, AlphaMin)
    /\ IF coord' = None
       THEN /\ pc' = "done"
            /\ exit_code' = <<ExitCodeOf("empty")>>
            /\ UNCHANGED <<last_coord, leftmost_coord, rightmost_coord, current_y>>
       ELSE /\ last_coord' = find_last_nontransparent_pixel(img, w, h, AlphaMin)
            /\ leftmost_coord' = find_leftmost_nontransparent_pixel(img, w, h, AlphaMin)
            /\ rightmost_coord' = find_rightmost_nontransparent_pixel(img, w, h, AlphaMin)
            /\ IF last_coord' = None
               THEN /\ pc' = "done"
                    /\ exit_code' = <<ExitCodeOf("empty")>>
                    /\ UNCHANGED current_y
               ELSE /\ pc' = "scan"
                    /\ current_y' = coord'[2]
                    /\ UNCHANGED exit_code
    /\ UNCHANGED <<w, h, img, block_size, row_number, all_rows, svg_out, editable,
                   calls>>
    /\ UNCHANGED <<image_file, raised>>
    /\ UNCHANGED <<estvars, srvvars>>

(* Variant: a strip without a row uses up a number too *)
KeepRowNumberingStrips(call) ==
    /\ row_number' = row_number + 1
    /\ IF call.row # None
       THEN all_rows' = Append(all_rows,
                               [name |-> <<"Row", IntToStr(row_number)>>,
                                row  |-> call.row[1]])
       ELSE UNCHANGED all_rows

(* Variant: only the first row found is kept *)
KeepFirstRowOnly(call) ==
    IF call.row # None /\ all_rows = <<>>
    THEN /\ all_rows' = Append(all_rows,
                               [name |-> <<"Row", IntToStr(row_number)>>,
                                row  |-> call.row[1]])
         /\ row_number' = row_number + 1
    ELSE UNCHANGED <<all_rows, row_number>>

(* if row_data: name it, append it, count it *)
KeepRow(call) ==
    IF call.row # None
    THEN /\ all_rows' = Append(all_rows,
                               [name |-> <<"Row", IntToStr(row_number)>>,
                                row  |-> call.row[1]])
         /\ row_number' = row_number + 1
    ELSE UNCHANGED <<all_rows, row_number>>

(* Lines 317-323: one iteration of the strip loop *)
ScanStrip ==
    /\ pc = "scan"
    /\ current_y <= last_coord[2]
    /\ Len(calls) < MaxCalls
    /\ calls' = Append(calls, ScanCall(img, w, h, current_y, block_size, AlphaMin))
    /\ KeepRow(calls'[Len(calls')])
    /\ current_y' = current_y + block_size
    /\ UNCHANGED <<w, h, img, block_size, pc, coord, last_coord, leftmost_coord,
                   rightmost_coord, svg_out, exit_code, editable>>
    /\ UNCHANGED <<image_file, raised>>
    /\ UNCHANGED <<estvars, srvvars>>

(* Variant: the exception leaves scan_row_blocks and ends main *)
ScanStripPropagates ==
    /\ pc = "scan"
    /\ current_y <= last_coord[2]
    /\ raised' = raised \cup {current_y}
    /\ pc' = "done"
    /\ exit_code' = <<1>>
    /\ UNCHANGED <<w, h, img, block_size, coord, last_coord, leftmost_coord,
                   rightmost_coord, current_y, row_number, all_rows, svg_out,
                   editable, calls, image_file>>
    /\ UNCHANGED <<estvars, srvvars>>

(* Lines 106-108 and 261-262 inside the loop of lines 317-323: opening,    *)
(* decoding or indexing the image raises, scan_row_blocks returns None and *)
(* the loop goes on.                                                       *)
ScanStripRaises ==
    /\ pc = "scan"
    /\ current_y <= last_coord[2]
    /\ Len(calls) < MaxCalls
    /\ raised' = raised \cup {current_y}
    /\ calls' = Append(calls, CallRecord(current_y, block_size, None, <<>>))
    /\ KeepRow(calls'[Len(calls')])
    /\ current_y' = current_y + block_size
    /\ UNCHANGED <<w, h, img, block_size, pc, coord, last_coord, leftmost_coord,
                   rightmost_coord, svg_out, exit_code, editable, image_file>>
    /\ UNCHANGED <<estvars, srvvars>>

(* Lines 325-327 *)
NoRows ==
    /\ pc = "scan"
    /\ current_y > last_coord[2]
    /\ all_rows = <<>>
    /\ pc' = "done"
    /\ exit_code' = <<ExitCodeOf("empty")>>
    /\ UNCHANGED <<w, h, img, block_size, coord, last_coord, leftmost_coord,
                   rightmost_coord, current_y, row_number, all_rows, svg_out,
                   editable, calls>>
    /\ UNCHANGED <<image_file, raised>>
    /\ UNCHANGED <<estvars, srvvars>>

Rows == [i \in DOMAIN all_rows |-> all_rows[i].row]

(* Lines 329-379: the SVG is built and written *)
WriteSvg ==
    /\ pc = "scan"
    /\ current_y > last_coord[2]
    /\ all_rows # <<>>
    /\ svg_out' = <<SvgContent(Rows, leftmost_coord, rightmost_coord, last_coord,
                               block_size)>>
    /\ pc' = "done"
    /\ exit_code' = <<0>>
    /\ UNCHANGED <<w, h, img, block_size, coord, last_coord, leftmost_coord,
                   rightmost_coord, current_y, row_number, all_rows, editable,
                   calls>>
    /\ UNCHANGED <<image_file, raised>>
    /\ UNCHANGED <<estvars, srvvars>>

(* Lines 366-371: open() or write() raises *)
WriteFails ==
    /\ pc = "scan"
    /\ current_y > last_coord[2]
    /\ all_rows # <<>>
    /\ pc' = "done"
    /\ exit_code' = <<ExitCodeOf("write")>>
    /\ UNCHANGED <<w, h, img, block_size, coord, last_coord, leftmost_coord,
                   rightmost_coord, current_y, row_number, all_rows, svg_out,
                   editable, calls>>
    /\ UNCHANGED <<image_file, raised>>
    /\ UNCHANGED <<estvars, srvvars>>

(* pixel_playground: the written SVG is rendered one pixel per block *)
RenderEditable ==
    /\ pc = "done"
    /\ exit_code = <<0>>
    /\ editable' = <<svg_to_editable_png(svg_out[1])>>
    /\ pc' = "rendered"
    /\ UNCHANGED <<w, h, img, block_size, coord, last_coord, leftmost_coord,
                   rightmost_coord, current_y, row_number, all_rows, svg_out,
                   exit_code, calls>>
    /\ UNCHANGED <<image_file, raised>>
    /\ UNCHANGED <<estvars, srvvars>>

Next ==
    \/ FindBoundaries
    \/ ScanStrip
    \/ NoRows
    \/ WriteSvg
    \/ WriteFails
    \/ RenderEditable

Spec == Init /\ [][Next]_vars

(* main with the failures of its environment: the image path, the reads of *)
(* the image during the strip scans, and the write of the SVG.             *)
NextIO ==
    \/ FileNotFound
    \/ OpenFails
    \/ FindBoundaries
    \/ ScanStrip
    \/ ScanStripRaises
    \/ NoRows
    \/ WriteSvg
    \/ WriteFails
    \/ RenderEditable

SpecIO == InitIO /\ [][NextIO]_vars

SpecTall == InitTall /\ [][Next]_vars

(* main with every --block-size argparse's type=int lets through (line     *)
(* 270): zero and negative sizes too.  The strip loop is followed for      *)
(* MaxCalls iterations at most.                                            *)
BlockSizeArgs == (0 - 1) .. MaxBlock

InitAnySize ==
    /\ \E s \in IOShapes : w = s[1] /\ h = s[2]
    /\ img \in [Cells(w, h) -> Palette]
    /\ block_size \in BlockSizeArgs
    /\ image_file = "valid"
    /\ Started
    /\ EstimatorIdle
    /\ ServerIdle

SpecAnySize == InitAnySize /\ [][Next]_vars

(* _svg_to_editable_png on SVG files of any origin: a rectangle whose      *)
(* attributes may be missing, not numbers, or zero or negative extents,    *)
(* before or behind a rectangle as main writes them.                       *)
CoordTexts == {Absent, <<"0">>, <<"1">>, <<"x">>}

ExtentTexts == {Absent, <<"0">>, <<"1">>, <<"-", "1">>, <<"x">>}

AnyRects ==
    {[x |-> x, y |-> y, width |-> rw, height |-> rh,
      fill |-> <<"#", "F", "F", "0", "0", "0", "A">>, fill_opacity |-> 5020] :
        x \in CoordTexts, y \in CoordTexts, rw \in ExtentTexts, rh \in ExtentTexts}

PlainRects ==
    {[x |-> IntToStr(x), y |-> IntToStr(0), width |-> IntToStr(1),
      height |-> IntToStr(1),
      fill |-> <<"#", "0", "0", "F", "F", "0", "0">>, fill_opacity |-> 10000] :
        x \in 0 .. 1}

RectLists ==
    {<<r>> : r \in AnyRects}
        \cup {<<r, q>> : r \in AnyRects, q \in PlainRects}
        \cup {<<q, r>> : r \in AnyRects, q \in PlainRects}

InitRender ==
    /\ w = 1
    /\ h = 1
    /\ img = [c \in Cells(1, 1) |-> Transparent]
    /\ block_size = 1
    /\ image_file = "valid"
    /\ pc = "done"
    /\ coord = None
    /\ last_coord = None
    /\ leftmost_coord = None
    /\ rightmost_coord = None
    /\ current_y = 0
    /\ row_number = 1
    /\ all_rows = <<>>
    /\ \E vh \in 1 .. 2, rects \in RectLists :
          svg_out = <<[viewBox |-> <<IntToStr(0), IntToStr(0), IntToStr(2), IntToStr(vh)>>,
                       width   |-> IntToStr(2),
                       height  |-> IntToStr(vh),
                       rects   |-> rects]>>
    /\ exit_code = <<0>>
    /\ editable = None
    /\ calls = <<>>
    /\ raised = {}
    /\ EstimatorIdle
    /\ ServerIdle

SpecRender == InitRender /\ [][RenderEditable]_vars

----------------------------------------------------------------------------
(* find_best_block_size and convert_to_perfect_pixelart as operations on   *)
(* the playground.                                                         *)

(* The candidate lists a caller supplies: no size twice *)
CandidateLists ==
    {l \in UNION {[1 .. n -> 1 .. MaxCandidate] : n \in 1 .. MaxCandidate} :
        \A i, j \in DOMAIN l : i # j => l[i] # l[j]}

(* The block sizes a caller supplies to the conversion *)
SuppliedSizes == (0 - 1) .. MaxBlock

InitEstimator ==
    /\ w = 1
    /\ h = 1
    /\ img = [c \in Cells(1, 1) |-> Transparent]
    /\ block_size = 1
    /\ image_file = "valid"
    /\ Started
    /\ ServerIdle
    /\ has_comparison \in BOOLEAN
    /\ np_img \in EstImages
    /\ ~has_comparison => np_img.w = 1 /\ np_img.h = 1 /\ np_img.px[<<0, 0>>] = Mid
    /\ grad_magnitude \in GradMaps(np_img)
    /\ \/ /\ op = "find_best_block_size"
          /\ block_sizes_arg \in {None} \cup {<<l>> : l \in CandidateLists}
          /\ block_size_arg = None
          /\ auto_detect = TRUE
       \/ /\ op = "convert_to_perfect_pixelart"
          /\ block_sizes_arg = None
          /\ block_size_arg \in {None} \cup {<<n>> : n \in SuppliedSizes}
          /\ auto_detect \in BOOLEAN
    /\ phase = "ready"
    /\ est_calls = 0
    /\ detection = None
    /\ session = NewSession
    /\ svg_block_size = None
    /\ result = None
    /\ disk_svg \in IF op = "convert_to_perfect_pixelart"
                    THEN {None, <<"an earlier image">>} ELSE {None}
    /\ main_exit = None

(* find_best_block_size called by itself; line 652 generates the SVG of    *)
(* the detected size.                                                      *)
FindBestBlockSize ==
    /\ op = "find_best_block_size"
    /\ phase = "ready"
    /\ est_calls' = est_calls + 1
    /\ detection' = find_best_block_size(np_img, grad_magnitude, has_comparison,
                                         block_sizes_arg)
    /\ session' = SessionAfter(session, detection')
    /\ svg_block_size' = IF detection' = None THEN svg_block_size
                         ELSE <<detection'[1].best_block_size>>
    /\ phase' = "returned"
    /\ UNCHANGED <<np_img, grad_magnitude, has_comparison, op, block_sizes_arg,
                   block_size_arg, auto_detect, result, disk_svg, main_exit>>
    /\ UNCHANGED <<mainvars, srvvars>>

(* Lines 679-682: the estimator is called only without a supplied size *)
Detects == block_size_arg = None /\ auto_detect

(* Lines 699-737 after _generate_svg.  The SVG is recorded in the session   *)
(* as soon as _generate_svg returned True; the comparison raster, the      *)
(* editable raster and the returned dictionary are all inside one try      *)
(* block whose handler re-raises (lines 729-733).                          *)
Raises(svg_generated, raster_ok) ==
    svg_generated /\ has_comparison /\ ~raster_ok

Completes(svg_generated, raster_ok) ==
    svg_generated /\ has_comparison /\ raster_ok

SessionOfConversion(sess, svg_generated, raster_ok, disk) ==
    IF ~svg_generated THEN sess
    ELSE IF Completes(svg_generated, raster_ok)
    THEN [sess EXCEPT !.svg_file = disk, !.rasterized_png_file = disk,
                      !.editable_png_file = disk]
    ELSE [sess EXCEPT !.svg_file = disk]

Converted(svg_generated, raster_ok, disk, bs) ==
    IF Completes(svg_generated, raster_ok)
    THEN <<[svg_file |-> disk, rasterized_png_file |-> disk,
            editable_png_file |-> disk, detected_block_size |-> bs]>>
    ELSE None

(* convert_to_perfect_pixelart on an existing input image; raster_ok says  *)
(* whether cairosvg.svg2png at lines 711-712 succeeds.                     *)
ConvertToPerfectPixelart ==
    /\ op = "convert_to_perfect_pixelart"
    /\ phase = "ready"
    /\ IF Detects
       THEN /\ est_calls' = est_calls + 1
            /\ detection' = find_best_block_size(np_img, grad_magnitude,
                                                 has_comparison, None)
       ELSE UNCHANGED <<est_calls, detection>>
    /\ svg_block_size' = <<ResolvedBlockSize(block_size_arg, detection')>>
    /\ \E exit \in MainExits(svg_block_size'[1]), raster_ok \in BOOLEAN :
          /\ main_exit' = exit
          /\ disk_svg' = FileAfter(disk_svg, exit)
          /\ IF exit = None
             THEN /\ phase' = "hung"
                  /\ session' = SessionAfter(session, detection')
                  /\ result' = None
             ELSE /\ phase' = IF Raises(generate_svg(disk_svg, exit), raster_ok)
                              THEN "raised" ELSE "returned"
                  /\ session' = SessionOfConversion(
                                    SessionAfter(session, detection'),
                                    generate_svg(disk_svg, exit), raster_ok,
                                    disk_svg')
                  /\ result' = Converted(generate_svg(disk_svg, exit),
                                         raster_ok, disk_svg',
                                         svg_block_size'[1])
    /\ UNCHANGED <<np_img, grad_magnitude, has_comparison, op, block_sizes_arg,
                   block_size_arg, auto_detect>>
    /\ UNCHANGED <<mainvars, srvvars>>

NextEstimator ==
    \/ FindBestBlockSize
    \/ ConvertToPerfectPixelart

SpecEstimator == InitEstimator /\ [][NextEstimator]_vars

----------------------------------------------------------------------------
(* webapp/server.py: the handlers of /api/generate, /api/convert and       *)
(* /api/remove-bg.  They are plain functions, which the framework runs in  *)
(* the threads of a pool, so the statements of two requests interleave.    *)
(* A file is <<directory, name>>; a name is <<what, request number>>.      *)

Kinds == {"generate", "convert", "remove-bg"}

StoredImages == {<<"stored", 1>>, <<"stored", 2>>}

(* The image_name of a request: absent, a stored image, or a name that is  *)
(* not in the storage.                                                     *)
ImageNameArgs == {None} \cup {<<n>> : n \in StoredImages \cup {<<"missing", 0>>}}

ImageOf(r) == <<"image", r>>
SvgOf(r) == <<"svg", r>>
RasterOf(r) == <<"raster", r>>
EditableOf(r) == <<"editable", r>>
NobgOf(r) == <<"nobg", r>>

(* Lines 200 and 263: the image a request works on *)
Target(kind, image_name, sess) ==
    IF image_name # None THEN image_name
    ELSE IF kind = "remove-bg" /\ sess.editable_png_file # None
    THEN sess.editable_png_file
    ELSE sess.last_web_image

(* The files the playground writes for a request, all with relative paths  *)
Produced(kind, r) ==
    IF kind = "generate" THEN {ImageOf(r)}
    ELSE IF kind = "convert" THEN {SvgOf(r), RasterOf(r), EditableOf(r)}
    ELSE {NobgOf(r)}

NewRequest(kind, image_name, target, status) ==
    [kind |-> kind, image_name |-> image_name, target |-> target,
     status |-> status, uploaded |-> {}]

(* The response of the request of thread t is sent *)
Responded(reqs, t, status) ==
    [reqs EXCEPT ![threads[t].req].status = status]

(* A request arrives and its handler starts: _ensure_ready, then the       *)
(* default target from the session; 400 without one.                       *)
Receive(t) ==
    /\ threads[t].pc = "idle"
    /\ Len(requests) < RequestsOf(max_threads)
    /\ Cardinality({u \in Threads : threads[u].pc # "idle"}) < max_threads
    /\ \E kind \in Kinds, image_name \in ImageNameArgs :
          /\ kind = "generate" => image_name = None
          /\ IF kind # "generate"
                /\ Target(kind, image_name, playground_session) = None
             THEN /\ requests' = Append(requests,
                                        NewRequest(kind, image_name, None, 400))
                  /\ UNCHANGED threads
             ELSE /\ requests' = Append(requests,
                        NewRequest(kind, image_name,
                            IF kind = "generate" THEN None
                            ELSE Target(kind, image_name, playground_session),
                            0))
                  /\ threads' = [threads EXCEPT ![t] =
                        [IdleThread EXCEPT !.pc = "enter",
                                           !.req = Len(requests) + 1]]
    /\ UNCHANGED <<cwd, dirs, files, cloud, playground_session, max_threads>>
    /\ UNCHANGED <<mainvars, estvars>>

(* _temp_workdir, lines 63-65: mkdtemp, prev = Path.cwd(), os.chdir.       *)
(* Path.cwd() raises when the working directory has been removed.          *)
EnterWorkdir(t) ==
    /\ threads[t].pc = "enter"
    /\ dirs' = dirs \cup {threads[t].req}
    /\ IF cwd \in dirs
       THEN /\ cwd' = threads[t].req
            /\ threads' = [threads EXCEPT ![t].work_dir = threads[t].req,
                                          ![t].prev = cwd,
                                          ![t].pc =
                               IF requests[threads[t].req].kind = "generate"
                               THEN "process" ELSE "download"]
            /\ UNCHANGED requests
       ELSE /\ requests' = Responded(requests, t, 500)
            /\ threads' = [threads EXCEPT ![t] = IdleThread]
            /\ UNCHANGED cwd
    /\ UNCHANGED <<files, cloud, playground_session, max_threads>>
    /\ UNCHANGED <<mainvars, estvars>>

(* storage.download_file to work_dir / target; 404 when it is not stored   *)
Download(t) ==
    /\ threads[t].pc = "download"
    /\ IF requests[threads[t].req].target[1] \in cloud
       THEN /\ files' = files \cup
                    {<<threads[t].work_dir, requests[threads[t].req].target[1]>>}
            /\ threads' = [threads EXCEPT ![t].pc = "process"]
       ELSE /\ threads' = [threads EXCEPT ![t].pc = "leave", ![t].status = 404]
            /\ UNCHANGED files
    /\ UNCHANGED <<cwd, dirs, cloud, playground_session, requests, max_threads>>
    /\ UNCHANGED <<mainvars, estvars>>

(* The call of the playground: generate_pixel_art, convert_to_perfect_     *)
(* pixelart or remove_background.  Its files go to the working directory   *)
(* the process has at that time; without that directory nothing can be     *)
(* written and the request ends with 500.  A conversion records its        *)
(* editable raster in the session (pixel_playground.py line 721).          *)
Process(t) ==
    /\ threads[t].pc = "process"
    /\ IF cwd \in dirs
       THEN /\ files' = files \cup
                    {<<cwd, n>> : n \in Produced(requests[threads[t].req].kind,
                                                 threads[t].req)}
            /\ playground_session' =
                    IF requests[threads[t].req].kind = "convert"
                    THEN [playground_session EXCEPT
                             !.editable_png_file = <<EditableOf(threads[t].req)>>]
                    ELSE playground_session
            /\ threads' = [threads EXCEPT ![t].pc = "upload"]
       ELSE /\ threads' = [threads EXCEPT ![t].pc = "leave", ![t].status = 500]
            /\ UNCHANGED <<files, playground_session>>
    /\ UNCHANGED <<cwd, dirs, cloud, requests, max_threads>>
    /\ UNCHANGED <<mainvars, estvars>>

(* _upload_to_cloud of work_dir / name for every file of the result: 500   *)
(* "File not found" when it is not there.  /api/convert then sets          *)
(* session["editable_png_file"] (line 245).                                *)
Upload(t) ==
    /\ threads[t].pc = "upload"
    /\ IF \A n \in Produced(requests[threads[t].req].kind, threads[t].req) :
             <<threads[t].work_dir, n>> \in files
       THEN /\ cloud' = cloud \cup Produced(requests[threads[t].req].kind,
                                            threads[t].req)
            /\ requests' = [requests EXCEPT ![threads[t].req].uploaded =
                               Produced(requests[threads[t].req].kind,
                                        threads[t].req)]
            /\ playground_session' =
                    IF requests[threads[t].req].kind = "convert"
                    THEN [playground_session EXCEPT
                             !.editable_png_file = <<EditableOf(threads[t].req)>>]
                    ELSE playground_session
            /\ threads' = [threads EXCEPT ![t].pc = "leave", ![t].status = 200]
       ELSE /\ threads' = [threads EXCEPT ![t].pc = "leave", ![t].status = 500]
            /\ UNCHANGED <<cloud, requests, playground_session>>
    /\ UNCHANGED <<cwd, dirs, files, max_threads>>
    /\ UNCHANGED <<mainvars, estvars>>

(* The end of _temp_workdir, lines 68-74: os.chdir(prev), which raises     *)
(* when prev is gone, then shutil.rmtree(work_dir); after it /api/generate *)
(* sets session["last_web_image"] (line 182); the response is sent.        *)
Leave(t) ==
    /\ threads[t].pc = "leave"
    /\ IF threads[t].prev \in dirs
       THEN /\ cwd' = threads[t].prev
            /\ dirs' = dirs \ {threads[t].work_dir}
            /\ files' = {f \in files : f[1] # threads[t].work_dir}
            /\ playground_session' =
                    IF requests[threads[t].req].kind = "generate"
                       /\ threads[t].status = 200
                    THEN [playground_session EXCEPT
                             !.last_web_image = <<ImageOf(threads[t].req)>>]
                    ELSE playground_session
            /\ requests' = Responded(requests, t, threads[t].status)
       ELSE /\ requests' = Responded(requests, t, 500)
            /\ UNCHANGED <<cwd, dirs, files, playground_session>>
    /\ threads' = [threads EXCEPT ![t] = IdleThread]
    /\ UNCHANGED <<cloud, max_threads>>
    /\ UNCHANGED <<mainvars, estvars>>

NextServer ==
    \/ \E t \in Threads : Receive(t)
    \/ \E t \in Threads : EnterWorkdir(t)
    \/ \E t \in Threads : Download(t)
    \/ \E t \in Threads : Process(t)
    \/ \E t \in Threads : Upload(t)
    \/ \E t \in Threads : Leave(t)

(* A server whose storage holds two images of an earlier run.  The clients *)
(* send one request at a time, or two at a time.                           *)
InitServerWith(pool) ==
    /\ w = 1
    /\ h = 1
    /\ img = [c \in Cells(1, 1) |-> Transparent]
    /\ block_size = 1
    /\ image_file = "valid"
    /\ Started
    /\ EstimatorIdle
    /\ cwd = BaseDir
    /\ dirs = {BaseDir}
    /\ files = {}
    /\ cloud = StoredImages
    /\ playground_session = [last_web_image |-> None, editable_png_file |-> None]
    /\ threads = [t \in Threads |-> IdleThread]
    /\ requests = <<>>
    /\ max_threads = pool

InitSession == InitServerWith(1)

InitServer == InitServerWith(2)

SpecSession == InitSession /\ [][NextServer]_vars

SpecServer == InitServer /\ [][NextServer]_vars

----------------------------------------------------------------------------
(* Notions the properties below are stated with, taken from the image      *)
(* itself and not from the scanners.                                       *)

VisibleCells(alpha_min_value) ==
    {c \in Cells(w, h) : img[c].a >= alpha_min_value}

(* The pixels of the image inside the bs x bs square at (ox, oy) *)
Footprint(ox, oy, bs) ==
    {c \in Cells(w, h) : /\ c[1] >= ox /\ c[1] < ox + bs
                         /\ c[2] >= oy /\ c[2] < oy + bs}

IsPrefix(s, t) == Len(s) <= Len(t) /\ s = SubSeq(t, 1, Len(s))

(* Colours compared channel by channel: red, green, blue, alpha *)
ColourLeq(p, q) ==
    \/ p.r < q.r
    \/ p.r = q.r /\ p.g < q.g
    \/ p.r = q.r /\ p.g = q.g /\ p.b < q.b
    \/ p.r = q.r /\ p.g = q.g /\ p.b = q.b /\ p.a <= q.a

(* Every block of every row main has kept *)
KeptBlocks ==
    UNION {{all_rows[i].row.blocks[j] : j \in DOMAIN all_rows[i].row.blocks} :
              i \in DOMAIN all_rows}

(* The blocks a call of scan_row_blocks returned: none when the row is     *)
(* absent.                                                                 *)
Returned(call) == IF call.row = None THEN <<>> ELSE call.row[1].blocks

(* A block with fewer than half of block_size^2 pixels visible *)
Sparse(blk) == 2 * blk.visible_pixels < block_size * block_size

----------------------------------------------------------------------------
(* C10: each boundary scanner returns the first visible pixel of its own   *)
(* scan order: first = smallest Y then smallest X; last = largest Y then   *)
(* largest X; leftmost = smallest X then smallest Y; rightmost = a visible *)
(* pixel of largest X.  Stated for every threshold of Thresholds on the    *)
(* image main is given, and for the four values main has stored.           *)
ScannersAgree(alpha_min_value, first, last, leftmost, rightmost) ==
    LET V == VisibleCells(alpha_min_value)
    IN  V # {} =>
          /\ first \in V
          /\ \A c \in V : first[2] < c[2] \/ (first[2] = c[2] /\ first[1] <= c[1])
          /\ last \in V
          /\ \A c \in V : last[2] > c[2] \/ (last[2] = c[2] /\ last[1] >= c[1])
          /\ leftmost \in V
          /\ \A c \in V : leftmost[1] < c[1]
                          \/ (leftmost[1] = c[1] /\ leftmost[2] <= c[2])
          /\ rightmost \in V
          /\ \A c \in V : rightmost[1] >= c[1]

C10_BoundaryScanners ==
    /\ pc = "start" =>
         \A t \in Thresholds :
            ScannersAgree(t,
                find_first_nontransparent_pixel(img, w, h, t),
                find_last_nontransparent_pixel(img, w, h, t),
                find_leftmost_nontransparent_pixel(img, w, h, t),
                find_rightmost_nontransparent_pixel(img, w, h, t))
    /\ pc = "scan" =>
         ScannersAgree(AlphaMin, coord, last_coord, leftmost_coord, rightmost_coord)

(* The four scanners have answered with four different pixels, and the     *)
(* leftmost pixel is not the first one of its column order by accident:    *)
(* some visible pixel lies above it.                                       *)
C10_Witness ==
    /\ pc = "scan"
    /\ Cardinality({coord, last_coord, leftmost_coord, rightmost_coord}) = 4
    /\ \E c \in VisibleCells(AlphaMin) : c[2] < leftmost_coord[2]

----------------------------------------------------------------------------
(* C9: in every block of every kept row, color_counts is ordered by        *)
(* descending count, ties by ascending RGBA hex string; its first entry is *)
(* the visible colour of the block's footprint with the highest count and, *)
(* among equally frequent colours, the smallest colour (the hex strings    *)
(* order as the channel values do), whatever the visiting order.           *)
CountIn(foot, hex) ==
    Cardinality({c \in foot : img[c].a >= AlphaMin /\ RgbaHex(img[c]) = hex})

C9_DominantColour ==
    \A blk \in KeptBlocks :
        LET cc == blk.color_counts
            foot == Footprint(blk.origin.x, blk.origin.y, block_size)
            vis == {c \in foot : img[c].a >= AlphaMin}
        IN  /\ cc # <<>>
            /\ \A i, j \in DOMAIN cc :
                  i < j => \/ cc[i].count > cc[j].count
                           \/ /\ cc[i].count = cc[j].count
                              /\ StrLess(cc[i].rgba_hex, cc[j].rgba_hex)
            /\ \E d \in vis :
                  /\ RgbaHex(img[d]) = cc[1].rgba_hex
                  /\ cc[1].count = CountIn(foot, RgbaHex(img[d]))
                  /\ \A c \in vis :
                        \/ CountIn(foot, RgbaHex(img[c])) < cc[1].count
                        \/ /\ CountIn(foot, RgbaHex(img[c])) = cc[1].count
                           /\ ColourLeq(img[d], img[c])

(* A kept block in which two colours are equally frequent and the colour   *)
(* visited first (the pixel at the block origin) lost the tie.             *)
C9_Witness ==
    \E blk \in KeptBlocks :
        LET cc == blk.color_counts
        IN  /\ Len(cc) >= 2
            /\ cc[1].count = cc[2].count
            /\ img[<<blk.origin.x, blk.origin.y>>].a >= AlphaMin
            /\ RgbaHex(img[<<blk.origin.x, blk.origin.y>>]) = cc[2].rgba_hex

----------------------------------------------------------------------------
(* C8 as stated: trimming removes blocks from the end only, a block        *)
(* followed by a retained block is never removed, and the leading block of *)
(* a row is never removed.                                                 *)
C8_LeadingNeverRemoved ==
    \A i \in DOMAIN calls :
        LET B == calls[i].scanned
            R == Returned(calls[i])
        IN  B # <<>> => /\ IsPrefix(R, B)
                        /\ R # <<>>
                        /\ R[1] = B[1]

(* C8 amended: the returned blocks are a prefix of the scanned blocks, so  *)
(* a block followed by a retained block is never removed whatever its      *)
(* visible fraction; every removed block is sparse; and the leading block  *)
(* is removed only when every block of the row is sparse, the row then     *)
(* being absent.                                                           *)
C8_TrimFromEndOnly ==
    \A i \in DOMAIN calls :
        LET B == calls[i].scanned
            R == Returned(calls[i])
        IN  /\ IsPrefix(R, B)
            /\ \A j \in DOMAIN B : j > Len(R) => Sparse(B[j])
            /\ (B # <<>> /\ R = <<>>) => \A j \in DOMAIN B : Sparse(B[j])
            /\ R # <<>> => R[1] = B[1]

(* A call whose row keeps a sparse block because a dense block follows it, *)
(* and loses a sparse block at its end.                                    *)
C8_Witness ==
    \E i \in DOMAIN calls :
        LET B == calls[i].scanned
            R == Returned(calls[i])
        IN  /\ Len(R) >= 2
            /\ Len(R) < Len(B)
            /\ \E j \in 1 .. Len(R) - 1 : Sparse(R[j])

----------------------------------------------------------------------------
(* C7: the tiling loop appends a tile if and only if it has a visible      *)
(* pixel, and goes on past transparent tiles: for every tile offset i with *)
(* first_x + i*block_size < width, the scanned blocks hold a block of      *)
(* index i (at origin first_x + i*block_size) exactly when the tile's      *)
(* footprint has a visible pixel; the blocks come in ascending index.      *)
C7_TilesAcrossGaps ==
    \A n \in DOMAIN calls :
        LET B == calls[n].scanned
            an == calls[n].anchor
        IN  /\ an = None => B = <<>>
            /\ an # None =>
                 /\ \A i \in 0 .. w :
                       an[1] + i * block_size < w =>
                          ( (\E c \in Footprint(an[1] + i * block_size, an[2],
                                                block_size) : img[c].a >= AlphaMin)
                            <=> (\E j \in DOMAIN B :
                                    /\ B[j].index = i
                                    /\ B[j].origin.x = an[1] + i * block_size) )
                 /\ \A j \in DOMAIN B :
                       /\ B[j].index >= 0
                       /\ an[1] + B[j].index * block_size < w
                       /\ B[j].visible_pixels > 0
                 /\ \A j, k \in DOMAIN B : j < k => B[j].index < B[k].index

(* A call whose loop passed a fully transparent tile and appended a block  *)
(* on its right, with blocks two pixels wide or more.                      *)
C7_Witness ==
    \E n \in DOMAIN calls :
        LET B == calls[n].scanned
        IN  /\ block_size >= 2
            /\ \E j \in DOMAIN B : j >= 2 /\ B[j].index > B[j - 1].index + 1

----------------------------------------------------------------------------
(* C6: a row is anchored at the first visible pixel of its strip.  With    *)
(* the strip being rows start_y .. start_y+block_size-1 below the image    *)
(* height: topmost_y is the smallest Y of a visible pixel in the strip,    *)
(* first_x the smallest X of a visible pixel on that row, block i has      *)
(* origin (first_x + i*block_size, topmost_y), a returned row reports      *)
(* first_pixel = (first_x, topmost_y), and a strip with no visible pixel   *)
(* gives no row.                                                           *)
C6_RowAnchor ==
    \A n \in DOMAIN calls :
        LET call == calls[n]
            strip == {c \in VisibleCells(AlphaMin) :
                         /\ c[2] >= call.start_y
                         /\ c[2] < call.start_y + block_size}
        IN  IF strip = {}
            THEN call.anchor = None /\ call.scanned = <<>> /\ call.row = None
            ELSE /\ call.anchor \in strip
                 /\ \A c \in strip :
                       \/ call.anchor[2] < c[2]
                       \/ call.anchor[2] = c[2] /\ call.anchor[1] <= c[1]
                 /\ \A j \in DOMAIN call.scanned :
                       /\ call.scanned[j].origin.x
                             = call.anchor[1] + call.scanned[j].index * block_size
                       /\ call.scanned[j].origin.y = call.anchor[2]
                 /\ call.row # None =>
                       /\ call.row[1].first_pixel.x = call.anchor[1]
                       /\ call.row[1].first_pixel.y = call.anchor[2]
                       /\ call.row[1].blocks[1].origin.x = call.anchor[1]
                       /\ call.row[1].blocks[1].origin.y = call.anchor[2]

(* A returned row whose anchor lies below the start of its strip, hence   *)
(* off the grid of steps of block_size from the first visible pixel.       *)
C6_Witness ==
    \E n \in DOMAIN calls :
        /\ calls[n].row # None
        /\ calls[n].anchor[2] > calls[n].start_y
        /\ (calls[n].anchor[2] - coord[2]) % block_size # 0

----------------------------------------------------------------------------
(* The written SVG as numbers *)

SvgW == ParseInt(svg_out[1].viewBox[3])

SvgH == ParseInt(svg_out[1].viewBox[4])

SvgRects == svg_out[1].rects

RECURSIVE FlatBlocks(_)
FlatBlocks(i) ==
    IF i > Len(all_rows) THEN <<>>
    ELSE all_rows[i].row.blocks \o FlatBlocks(i + 1)

(* Extremes of the visible pixels of the image *)
LeftmostX == CHOOSE x \in 0 .. w - 1 :
    /\ \E c \in VisibleCells(AlphaMin) : c[1] = x
    /\ \A c \in VisibleCells(AlphaMin) : c[1] >= x

RightmostX == CHOOSE x \in 0 .. w - 1 :
    /\ \E c \in VisibleCells(AlphaMin) : c[1] = x
    /\ \A c \in VisibleCells(AlphaMin) : c[1] <= x

TopmostVisibleY == CHOOSE y \in 0 .. h - 1 :
    /\ \E c \in VisibleCells(AlphaMin) : c[2] = y
    /\ \A c \in VisibleCells(AlphaMin) : c[2] >= y

BottommostY == CHOOSE y \in 0 .. h - 1 :
    /\ \E c \in VisibleCells(AlphaMin) : c[2] = y
    /\ \A c \in VisibleCells(AlphaMin) : c[2] <= y

----------------------------------------------------------------------------
(* C5: the declared canvas encloses every emitted rectangle: each          *)
(* rectangle's cell (x, y) has 0 <= x < canvas width, 0 <= y < canvas      *)
(* height.                                                                 *)
C5_CanvasEncloses ==
    svg_out # None =>
        \A k \in DOMAIN SvgRects :
            /\ 0 <= ParseInt(SvgRects[k].x)
            /\ ParseInt(SvgRects[k].x) < SvgW
            /\ 0 <= ParseInt(SvgRects[k].y)
            /\ ParseInt(SvgRects[k].y) < SvgH

(* An SVG of at least two columns and two rows, scanned in blocks of two  *)
(* pixels or more, with a rectangle in its last column and one in its last *)
(* row.                                                                    *)
C5_Witness ==
    /\ svg_out # None
    /\ block_size >= 2
    /\ SvgW >= 2
    /\ SvgH >= 2
    /\ \E k \in DOMAIN SvgRects : ParseInt(SvgRects[k].x) = SvgW - 1
    /\ \E k \in DOMAIN SvgRects : ParseInt(SvgRects[k].y) = SvgH - 1

----------------------------------------------------------------------------
(* C4: for every successful run the canvas satisfies the BlockGrid         *)
(* invariant: width = floor((rightmost_x - leftmost_x) / block_size) + 1   *)
(* and height = floor((bottommost_y - topmost_y) / block_size) + 1, taken  *)
(* from the extreme visible pixels of the image.                           *)
C4_CanvasFromBoundingBox ==
    svg_out # None =>
        /\ SvgW = ((RightmostX - LeftmostX) \div block_size) + 1
        /\ SvgH = ((BottommostY - TopmostVisibleY) \div block_size) + 1

----------------------------------------------------------------------------
(* C3 as stated: one rectangle per block of the kept rows, in order, of    *)
(* width and height 1, at cell ((imgX - leftRef) div block_size,           *)
(* (imgY - topRef) div block_size), leftRef the X of the leftmost visible  *)
(* pixel and topRef the origin Y of the first kept row's first block,      *)
(* filled with the RGB of the block's first colour entry; the opacity is   *)
(* what Opacity(written, alpha) says of it.                                *)
RectOfBlock(rect, blk, Opacity(_, _)) ==
    /\ rect.width = <<"1">>
    /\ rect.height = <<"1">>
    /\ ParseInt(rect.x) = (blk.origin.x - LeftmostX) \div block_size
    /\ ParseInt(rect.y) =
          (blk.origin.y - all_rows[1].row.blocks[1].origin.y) \div block_size
    /\ \E d \in Footprint(blk.origin.x, blk.origin.y, block_size) :
          /\ RgbaHex(img[d]) = blk.color_counts[1].rgba_hex
          /\ rect.fill = <<"#">> \o to_hex(img[d].r) \o to_hex(img[d].g)
                                 \o to_hex(img[d].b)
          /\ Opacity(rect.fill_opacity, img[d].a)

(* fill-opacity is exactly alpha / 255 *)
ExactOpacity(written, alpha) == written * MaxAlpha = alpha * Pow10(OpacityDigits)

(* fill-opacity is alpha / 255 rounded to OpacityDigits decimals *)
RoundedOpacity(written, alpha) ==
    /\ 2 * (written * MaxAlpha - alpha * Pow10(OpacityDigits)) <= MaxAlpha
    /\ 2 * (alpha * Pow10(OpacityDigits) - written * MaxAlpha) <= MaxAlpha

C3_RectPerBlockExactOpacity ==
    svg_out # None =>
        /\ Len(SvgRects) = Len(FlatBlocks(1))
        /\ \A k \in DOMAIN SvgRects :
              RectOfBlock(SvgRects[k], FlatBlocks(1)[k], ExactOpacity)

(* C3 amended: the same, the fill-opacity being the first colour's         *)
(* alpha / 255 rounded to four decimals.                                   *)
C3_RectPerBlock ==
    svg_out # None =>
        /\ Len(SvgRects) = Len(FlatBlocks(1))
        /\ \A k \in DOMAIN SvgRects :
              RectOfBlock(SvgRects[k], FlatBlocks(1)[k], RoundedOpacity)

(* An SVG of two rows or more whose rows start at different X, with a      *)
(* block right of the leftmost column whose first colour is half           *)
(* transparent.                                                            *)
C3_Witness ==
    /\ svg_out # None
    /\ Len(all_rows) >= 2
    /\ block_size >= 2
    /\ \E i, j \in DOMAIN all_rows :
          all_rows[i].row.first_pixel.x # all_rows[j].row.first_pixel.x
    /\ \E k \in DOMAIN SvgRects :
          /\ SvgRects[k].fill_opacity < Pow10(OpacityDigits)
          /\ ParseInt(SvgRects[k].x) > 0

----------------------------------------------------------------------------
(* C2: round trip: for every rectangle of the written SVG, at cell (x, y)  *)
(* with fill #RRGGBB, pixel (x, y) of the raster _svg_to_editable_png      *)
(* renders from that SVG has exactly that RGB.                             *)
C2_RoundTrip ==
    pc = "rendered" =>
        \A k \in DOMAIN SvgRects :
            LET c == <<ParseInt(SvgRects[k].x), ParseInt(SvgRects[k].y)>>
            IN  /\ c \in DOMAIN editable[1].px
                /\ editable[1].px[c] = FillColor(SvgRects[k].fill)

----------------------------------------------------------------------------
(* C1: ideal input is reconstructed exactly.  When the visible pixels form *)
(* block_size x block_size tiles on the grid anchored at the first visible *)
(* pixel, each tile inside the image and of one single RGBA colour, main   *)
(* does not fail for want of rows, and the SVG it writes has exactly one   *)
(* unit rectangle per visible tile, at the tile's column and row counted   *)
(* from the leftmost visible column and the topmost visible row, filled    *)
(* with the tile's RGB, on a canvas as wide and as high as the tiles       *)
(* reach.                                                                  *)
FirstVisible ==
    CHOOSE f \in VisibleCells(AlphaMin) :
        \A c \in VisibleCells(AlphaMin) :
            f[2] < c[2] \/ (f[2] = c[2] /\ f[1] <= c[1])

(* The origin of the grid tile that pixel c lies in *)
TileOf(c) ==
    <<c[1] - ((c[1] - FirstVisible[1] + block_size * w) % block_size),
      c[2] - ((c[2] - FirstVisible[2] + block_size * h) % block_size)>>

Ideal ==
    /\ VisibleCells(AlphaMin) # {}
    /\ \A c \in VisibleCells(AlphaMin) :
          LET t == TileOf(c)
          IN  /\ t[1] >= 0
              /\ t[1] + block_size <= w
              /\ t[2] + block_size <= h
              /\ \A d \in Footprint(t[1], t[2], block_size) : img[d] = img[c]

VisibleTiles == {TileOf(c) : c \in VisibleCells(AlphaMin)}

(* <<column, row, fill>> of the rectangle expected for tile t *)
ExpectedRect(t) ==
    <<(t[1] - LeftmostX) \div block_size,
      (t[2] - TopmostVisibleY) \div block_size,
      <<"#">> \o to_hex(img[t].r) \o to_hex(img[t].g) \o to_hex(img[t].b)>>

C1_IdealInput ==
    Ideal =>
        /\ exit_code # <<2>>
        /\ svg_out # None =>
              /\ exit_code = <<0>>
              /\ Len(SvgRects) = Cardinality(VisibleTiles)
              /\ {<<ParseInt(SvgRects[k].x), ParseInt(SvgRects[k].y),
                    SvgRects[k].fill>> : k \in DOMAIN SvgRects}
                     = {ExpectedRect(t) : t \in VisibleTiles}
              /\ \A k \in DOMAIN SvgRects :
                    SvgRects[k].width = <<"1">> /\ SvgRects[k].height = <<"1">>
              /\ SvgW = ((RightmostX - LeftmostX + 1) \div block_size)
              /\ SvgH = ((BottommostY - TopmostVisibleY + 1) \div block_size)

(* An ideal image of tiles two pixels wide, away from the image's top and  *)
(* left edges, with tiles of two colours in two rows, the lower row        *)
(* starting left of the first visible pixel, written with exit code 0.     *)
C1_Witness ==
    /\ Ideal
    /\ exit_code = <<0>>
    /\ svg_out # None
    /\ block_size >= 2
    /\ Cardinality(VisibleTiles) >= 3
    /\ FirstVisible[1] > LeftmostX
    /\ LeftmostX > 0
    /\ TopmostVisibleY > 0
    /\ \E s, t \in VisibleTiles : img[s] # img[t]

----------------------------------------------------------------------------
(* C11: empty content is a terminal failure.  For every threshold of       *)
(* Thresholds, if no pixel of the image has alpha >= threshold, the four   *)
(* boundary scanners return None; and when no pixel reaches the threshold  *)
(* of main, main ends with exit code 2 having called scan_row_blocks for   *)
(* no strip, kept no row and written no SVG.                               *)
C11_EmptyContent ==
    /\ \A thr \in Thresholds :
          VisibleCells(thr) = {} =>
              /\ find_first_nontransparent_pixel(img, w, h, thr) = None
              /\ find_last_nontransparent_pixel(img, w, h, thr) = None
              /\ find_leftmost_nontransparent_pixel(img, w, h, thr) = None
              /\ find_rightmost_nontransparent_pixel(img, w, h, thr) = None
    /\ (VisibleCells(AlphaMin) = {} /\ pc # "start") =>
          /\ pc = "done"
          /\ exit_code = <<2>>
          /\ coord = None
          /\ calls = <<>>
          /\ all_rows = <<>>
          /\ svg_out = None
          /\ editable = None

(* main has ended on an image of several pixels, some of them with a       *)
(* non-zero alpha, none of them reaching the threshold.                    *)
C11_Witness ==
    /\ pc = "done"
    /\ exit_code = <<2>>
    /\ w * h >= 2
    /\ VisibleCells(AlphaMin) = {}
    /\ VisibleCells(DefaultAlphaMin) # {}

----------------------------------------------------------------------------
(* The number of strips the loop of main visits: current_y runs from the   *)
(* first visible Y in steps of block_size while it is <= the last Y.       *)
NStrips == (last_coord[2] - coord[2]) \div block_size + 1

(* The rows the calls so far have returned, absent ones left out *)
RECURSIVE PresentRows(_)
PresentRows(i) ==
    IF i = 0 THEN <<>>
    ELSE IF calls[i].row = None THEN PresentRows(i - 1)
    ELSE Append(PresentRows(i - 1), calls[i].row[1])

LoopLeft == pc \in {"done", "rendered"} /\ last_coord # None

(* C12: a strip that yields no row is omitted and scanning goes on with    *)
(* the next strip: the calls visit the strips one block_size apart, all of *)
(* them by the time main ends, and the kept rows are exactly the rows      *)
(* returned, in order.  main ends with exit code 2 and no SVG exactly when *)
(* every strip was absent; otherwise either the SVG is written with at     *)
(* least one rectangle and the exit code is 0, or the write failed.        *)
C12_AbsentRowsOmitted ==
    last_coord # None =>
        /\ \A i \in DOMAIN calls : calls[i].start_y = coord[2] + (i - 1) * block_size
        /\ Rows = PresentRows(Len(calls))
        /\ LoopLeft =>
              /\ Len(calls) = NStrips
              /\ exit_code = <<2>> <=> \A i \in DOMAIN calls : calls[i].row = None
              /\ exit_code = <<2>> => svg_out = None
              /\ exit_code # <<2>> =>
                    \/ /\ exit_code = <<0>>
                       /\ svg_out # None
                       /\ Len(svg_out[1].rects) >= 1
                    \/ /\ exit_code = <<3>>
                       /\ svg_out = None

(* An SVG was written although the first strip, which holds the first     *)
(* visible pixel of the image, gave no row.                                *)
C12_Witness ==
    /\ pc = "done"
    /\ exit_code = <<0>>
    /\ Len(calls) >= 2
    /\ calls[1].row = None
    /\ calls[Len(calls)].row # None

----------------------------------------------------------------------------
(* The three kinds of whole-image failure, told by what happened and not   *)
(* by the exit code: the image path names no readable image; the image is  *)
(* read but no row is kept (no visible pixel, or no rows detected); rows   *)
(* are kept but the SVG is not written.                                    *)
FailureKinds == {"input", "empty", "write"}

InputError == pc = "done" /\ image_file # "valid"

EmptyContent == pc = "done" /\ image_file = "valid" /\ all_rows = <<>>

WriteFailure == pc = "done" /\ all_rows # <<>> /\ svg_out = None

FailureKind ==
    IF InputError THEN "input" ELSE IF WriteFailure THEN "write" ELSE "empty"

(* C13: the three failure kinds have pairwise distinct exit codes: when    *)
(* main fails, it returns the exit code of the kind of its failure, and    *)
(* that code is not the code main returns for either of the other kinds.   *)
C13_DistinctExitCodes ==
    (InputError \/ EmptyContent \/ WriteFailure) =>
        /\ exit_code = <<ExitCodeOf(FailureKind)>>
        /\ \A k \in FailureKinds \ {FailureKind} : ExitCodeOf(k) # exit_code[1]

----------------------------------------------------------------------------
(* C14: scan_row_blocks never propagates a failure.  A start Y at or below *)
(* the image's last line gives None; a call in which reading the image     *)
(* raises returns None; the step of main in which that happens leaves the  *)
(* kept rows as they are, stays in the loop and moves on by block_size;    *)
(* the loop visits every strip, and the kept rows are the rows returned.   *)
ScanRaisesStep == raised' # raised

C14_ScanNeverPropagates ==
    /\ [](/\ \A y \in h .. h + MaxBlock :
                scan_row_blocks(img, w, h, y, block_size, AlphaMin) = None
          /\ last_coord # None =>
                /\ \A i \in DOMAIN calls :
                      /\ calls[i].start_y = coord[2] + (i - 1) * block_size
                      /\ calls[i].start_y \in raised => calls[i].row = None
                /\ raised \subseteq {calls[i].start_y : i \in DOMAIN calls}
                /\ Rows = PresentRows(Len(calls))
                /\ LoopLeft => Len(calls) = NStrips)
    /\ [][ScanRaisesStep =>
             /\ all_rows' = all_rows
             /\ row_number' = row_number
             /\ pc = "scan" /\ pc' = "scan"
             /\ current_y' = current_y + block_size
             /\ exit_code' = exit_code]_vars

(* main wrote an SVG although the scan of a strip raised between two kept  *)
(* rows, the strip being one that holds a row when it can be read.         *)
C14_Witness ==
    /\ pc = "done"
    /\ exit_code = <<0>>
    /\ \E i \in 2 .. Len(calls) - 1 :
          /\ calls[i].start_y \in raised
          /\ scan_row_blocks(img, w, h, calls[i].start_y, block_size, AlphaMin) # None
          /\ calls[i - 1].row # None
          /\ calls[i + 1].row # None

----------------------------------------------------------------------------
(* Notions of the estimator's properties *)

(* The candidate list find_best_block_size works on *)
SuppliedList ==
    IF block_sizes_arg = None THEN DefaultBlockSizes ELSE block_sizes_arg[1]

(* uniformity x boundary_ratio of an analysis entry *)
Combined(r) == FracMul(r.uniformity, r.boundary_ratio)

(* The combined score of the candidate of size bs *)
CombinedOf(bs) ==
    Combined(CHOOSE r \in {detection[1].results[i] : i \in DOMAIN detection[1].results} :
                 r.block_size = bs)

BestScore == detection[1].analysis.combined_score

(* The places of the supplied list whose candidate has the best score *)
TiedPlaces == {i \in DOMAIN SuppliedList : CombinedOf(SuppliedList[i]) = BestScore}

(* The supplied list in each of its orderings *)
Orderings(list) ==
    {q \in [DOMAIN list -> {list[i] : i \in DOMAIN list}] :
        \A i, j \in DOMAIN q : i # j => q[i] # q[j]}

----------------------------------------------------------------------------
(* C15: find_best_block_size analyses exactly the supplied candidates; the *)
(* entry it returns as analysis is the entry of one of them with its       *)
(* combined score uniformity x boundary_ratio; no candidate has a higher   *)
(* combined score; every candidate with an equal combined score has a      *)
(* block size at least as large; and best_block_size, the analysis entry   *)
(* and session['detected_block_size'] name that same candidate.            *)
C15_BestCandidate ==
    detection # None =>
        /\ {detection[1].results[i].block_size : i \in DOMAIN detection[1].results}
              = {SuppliedList[i] : i \in DOMAIN SuppliedList}
        /\ \E i \in DOMAIN detection[1].results :
              /\ detection[1].analysis.block_size = detection[1].results[i].block_size
              /\ detection[1].analysis.uniformity = detection[1].results[i].uniformity
              /\ detection[1].analysis.boundary_ratio
                    = detection[1].results[i].boundary_ratio
              /\ detection[1].analysis.combined_score = Combined(detection[1].results[i])
        /\ detection[1].best_block_size = detection[1].analysis.block_size
        /\ session.detected_block_size = <<detection[1].best_block_size>>
        /\ \A i \in DOMAIN detection[1].results :
              /\ ~FracLess(BestScore, Combined(detection[1].results[i]))
              /\ Combined(detection[1].results[i]) = BestScore
                    => detection[1].best_block_size <= detection[1].results[i].block_size

(* Three candidates were analysed and the one selected is not the smallest *)
(* of them: it has a strictly higher score than every smaller candidate.   *)
C15_Witness ==
    /\ phase = "returned"
    /\ detection # None
    /\ Len(detection[1].results) = 3
    /\ \E i \in DOMAIN detection[1].results :
          detection[1].results[i].block_size < detection[1].best_block_size
    /\ \A i \in DOMAIN detection[1].results :
          detection[1].results[i].block_size < detection[1].best_block_size
              => FracLess(Combined(detection[1].results[i]), BestScore)

----------------------------------------------------------------------------
(* C16 as stated: when several supplied candidates have the best combined  *)
(* score, the one that comes first in the supplied list is selected.       *)
C16_FirstListedWins ==
    (op = "find_best_block_size" /\ detection # None /\ Cardinality(TiedPlaces) >= 2) =>
        detection[1].best_block_size
            = SuppliedList[CHOOSE i \in TiedPlaces : \A j \in TiedPlaces : i <= j]

(* C16 amended: the order of the supplied list has no influence: every     *)
(* ordering of the list gives the same best_block_size, and when several   *)
(* candidates have the best combined score the one of smallest block size  *)
(* is selected, wherever it stands in the list.                            *)
C16_SmallestTiedWins ==
    (op = "find_best_block_size" /\ detection # None) =>
        /\ \A d \in {find_best_block_size(np_img, grad_magnitude, has_comparison, <<q>>) :
                       q \in Orderings(SuppliedList)} :
              d[1].best_block_size = detection[1].best_block_size
        /\ \A i \in TiedPlaces : detection[1].best_block_size <= SuppliedList[i]

(* Two supplied candidates share the best score and the one listed first   *)
(* is the larger of the two.                                               *)
C16_Witness ==
    /\ op = "find_best_block_size"
    /\ phase = "returned"
    /\ detection # None
    /\ block_sizes_arg # None
    /\ Cardinality(TiedPlaces) >= 2
    /\ Cardinality(TiedPlaces) < Len(SuppliedList)
    /\ SuppliedList[CHOOSE i \in TiedPlaces : \A j \in TiedPlaces : i <= j]
          # detection[1].best_block_size

----------------------------------------------------------------------------
(* C17: block-size resolution of convert_to_perfect_pixelart.  A supplied  *)
(* size is used and the estimator is not called; without one, with         *)
(* auto_detect and the estimator available, the estimator's                *)
(* best_block_size is used; otherwise the default 16 is used and nothing   *)
(* is computed.  In every case one block size, a positive one, is handed   *)
(* to the SVG generation, and a returned detected_block_size is that size. *)
C17_BlockSizeResolution ==
    (op = "convert_to_perfect_pixelart" /\ phase # "ready") =>
        /\ svg_block_size # None
        /\ block_size_arg # None =>
              /\ svg_block_size = block_size_arg
              /\ est_calls = 0
              /\ detection = None
        /\ (block_size_arg = None /\ auto_detect /\ has_comparison) =>
              /\ detection # None
              /\ svg_block_size = <<detection[1].best_block_size>>
        /\ (block_size_arg = None /\ ~(auto_detect /\ has_comparison)) =>
              /\ svg_block_size = <<16>>
              /\ detection = None
              /\ session.detected_block_size = None
        /\ svg_block_size[1] > 0
        /\ result # None => result[1].detected_block_size = svg_block_size[1]

----------------------------------------------------------------------------
(* C18 as stated: the boundary ratio of every analysed candidate is        *)
(* avg_boundary / 0.001 whenever avg_inside < 0.001, also for avg_boundary *)
(* = 0, and avg_boundary / avg_inside otherwise; an image of one colour    *)
(* has boundary ratio 0 and combined score 0.                              *)
C18_RatioDividesByFloor ==
    detection # None =>
        /\ \A i \in DOMAIN detection[1].results :
              detection[1].results[i].boundary_ratio
                 = IF FracLess(detection[1].results[i].inside_gradient, Thousandth)
                   THEN FracDiv(detection[1].results[i].boundary_gradient, Thousandth)
                   ELSE FracDiv(detection[1].results[i].boundary_gradient,
                                detection[1].results[i].inside_gradient)
        /\ IsFlat(np_img) =>
              /\ detection[1].analysis.boundary_ratio = Zero
              /\ BestScore = Zero

(* C18 amended: with avg_inside < 0.001 the boundary ratio is              *)
(* avg_boundary / 0.001 when avg_boundary > 0 and 1 when avg_boundary = 0; *)
(* otherwise it is avg_boundary / avg_inside.  An image of one colour has  *)
(* boundary ratio 1, and its combined score is its uniformity.             *)
C18_BoundaryRatio ==
    detection # None =>
        /\ \A i \in DOMAIN detection[1].results :
              detection[1].results[i].boundary_ratio
                 = IF FracLess(detection[1].results[i].inside_gradient, Thousandth)
                   THEN IF detection[1].results[i].boundary_gradient = Zero THEN One
                        ELSE FracDiv(detection[1].results[i].boundary_gradient,
                                     Thousandth)
                   ELSE FracDiv(detection[1].results[i].boundary_gradient,
                                detection[1].results[i].inside_gradient)
        /\ IsFlat(np_img) =>
              /\ detection[1].analysis.boundary_ratio = One
              /\ BestScore = detection[1].analysis.uniformity

(* One detection of an image of two colours analysed a candidate with a   *)
(* flat interior and a boundary gradient of 0, and a candidate with a flat *)
(* interior and a boundary gradient above 0.                               *)
C18_Witness ==
    /\ phase = "returned"
    /\ detection # None
    /\ ~IsFlat(np_img)
    /\ \E i, j \in DOMAIN detection[1].results :
          /\ FracLess(detection[1].results[i].inside_gradient, Thousandth)
          /\ FracLess(Zero, detection[1].results[i].inside_gradient)
          /\ detection[1].results[i].boundary_gradient = Zero
          /\ detection[1].results[i].boundary_ratio = One
          /\ FracLess(detection[1].results[j].inside_gradient, Thousandth)
          /\ FracLess(Zero, detection[1].results[j].boundary_gradient)

----------------------------------------------------------------------------
(* C19: for an image whose pixels all have the same RGB value, the         *)
(* uniformity of every analysed candidate N is exactly 1 when N <= width   *)
(* and N <= height and 0 when N exceeds the width or the height; for every *)
(* image the uniformity lies in [0, 1].                                    *)
C19_FlatUniformity ==
    detection # None =>
        \A i \in DOMAIN detection[1].results :
            /\ IsFlat(np_img) =>
                  detection[1].results[i].uniformity
                     = IF /\ detection[1].results[i].block_size <= np_img.w
                          /\ detection[1].results[i].block_size <= np_img.h
                       THEN One ELSE Zero
            /\ ~FracLess(One, detection[1].results[i].uniformity)

----------------------------------------------------------------------------
(* Notions of the renderer's properties *)

(* The cells of the raster that rectangle rect lies on *)
CellsOf(rect) ==
    {c \in Cells(ParseInt(svg_out[1].viewBox[3]), ParseInt(svg_out[1].viewBox[4])) :
        /\ c[1] >= ParseInt(rect.x)
        /\ c[1] < ParseInt(rect.x) + ParseInt(rect.width)
        /\ c[2] >= ParseInt(rect.y)
        /\ c[2] < ParseInt(rect.y) + ParseInt(rect.height)}

(* The places in the SVG of the rectangles that lie on cell c *)
RectsOn(c) == {k \in DOMAIN SvgRects : c \in CellsOf(SvgRects[k])}

(* The raster after the first k rectangles of the SVG have been painted *)
PaintedThrough(k) ==
    svg_to_editable_png([svg_out[1] EXCEPT !.rects = SubSeq(SvgRects, 1, k)]).px

(* #RRGGBB of a raster pixel, written as main writes a fill *)
RgbHex(rgb) == <<"#">> \o to_hex(rgb[1]) \o to_hex(rgb[2]) \o to_hex(rgb[3])

(* fill-opacity values between which the SVG's own are exchanged *)
OpacityChoices == {0, Pow10(OpacityDigits)}

(* Other fill-opacity values for the rectangles of the written SVG: one   *)
(* value for all of them, or one rectangle's value exchanged               *)
OpacityVariants ==
    {[k \in DOMAIN SvgRects |-> v] : v \in OpacityChoices}
        \cup {[k \in DOMAIN SvgRects |->
                  IF k = j THEN v ELSE SvgRects[k].fill_opacity] :
                      j \in DOMAIN SvgRects, v \in OpacityChoices}

(* The written SVG with the fill-opacity of rectangle k replaced by o[k] *)
WithOpacities(o) ==
    [svg_out[1] EXCEPT !.rects =
        [k \in DOMAIN SvgRects |-> [SvgRects[k] EXCEPT !.fill_opacity = o[k]]]]

----------------------------------------------------------------------------
(* C20: the raster _svg_to_editable_png renders is as wide and as high as  *)
(* the SVG's viewBox; every cell no rectangle lies on is white; painting a *)
(* rectangle sets each of its cells to exactly the RGB of its #RRGGBB      *)
(* fill, so that a cell of the finished raster holds the RGB of the last   *)
(* rectangle lying on it; and the raster is the same whatever the          *)
(* fill-opacity values of the rectangles are.                              *)
C20_EditableRaster ==
    pc = "rendered" =>
        /\ editable # None
        /\ IntToStr(editable[1].w) = svg_out[1].viewBox[3]
        /\ IntToStr(editable[1].h) = svg_out[1].viewBox[4]
        /\ DOMAIN editable[1].px = Cells(editable[1].w, editable[1].h)
        /\ \A c \in DOMAIN editable[1].px :
              RectsOn(c) = {} => editable[1].px[c] = White
        /\ \A k \in DOMAIN SvgRects :
              \A c \in CellsOf(SvgRects[k]) :
                  RgbHex(PaintedThrough(k)[c]) = SvgRects[k].fill
        /\ \A c \in DOMAIN editable[1].px :
              RectsOn(c) # {} =>
                  \E k \in RectsOn(c) :
                      /\ \A j \in RectsOn(c) : j <= k
                      /\ RgbHex(editable[1].px[c]) = SvgRects[k].fill
        /\ \A o \in OpacityVariants :
              svg_to_editable_png(WithOpacities(o)) = editable[1]

(* A rendered raster with a cell no rectangle lies on, painted from an SVG *)
(* of two rectangles or more of different fills, one of them with a        *)
(* fill-opacity below 1.                                                   *)
C20_Witness ==
    /\ pc = "rendered"
    /\ editable # None
    /\ \E c \in DOMAIN editable[1].px : RectsOn(c) = {}
    /\ \E j, k \in DOMAIN SvgRects :
          /\ SvgRects[j].fill # SvgRects[k].fill
          /\ CellsOf(SvgRects[j]) # {}
          /\ CellsOf(SvgRects[k]) # {}
          /\ SvgRects[k].fill_opacity < Pow10(OpacityDigits)
          /\ SvgRects[k].fill_opacity > 0

----------------------------------------------------------------------------
(* The visible pixels of the image inside a block's tile *)
VisibleIn(blk) ==
    {c \in Footprint(blk.origin.x, blk.origin.y, block_size) : img[c].a >= AlphaMin}

(* C24: of every call of scan_row_blocks, with B the scanned tiles that    *)
(* hold a visible pixel, from left to right: the returned blocks are a     *)
(* prefix of B; the last returned block has at least half of block_size^2  *)
(* pixels visible, the square of the block size also being the measure for *)
(* a tile cut by the image edge; every block of B behind the returned ones *)
(* has fewer, so the prefix is the longest such; and when no block of B    *)
(* reaches the half the row is absent.                                     *)
C24_LongestDensePrefix ==
    \A i \in DOMAIN calls :
        LET B == calls[i].scanned
            R == Returned(calls[i])
        IN  /\ IsPrefix(R, B)
            /\ \A j \in DOMAIN B : B[j].visible_pixels = Cardinality(VisibleIn(B[j]))
            /\ R # <<>> =>
                  2 * Cardinality(VisibleIn(R[Len(R)])) >= block_size * block_size
            /\ \A j \in DOMAIN B :
                  j > Len(R) =>
                      2 * Cardinality(VisibleIn(B[j])) < block_size * block_size
            /\ (\A j \in DOMAIN B :
                    2 * Cardinality(VisibleIn(B[j])) < block_size * block_size)
                  <=> calls[i].row = None

(* A call that returned a row and dropped a last tile cut by the image     *)
(* edge, all of whose pixels inside the image are visible.                 *)
C24_Witness ==
    \E i \in DOMAIN calls :
        LET B == calls[i].scanned
            R == Returned(calls[i])
        IN  /\ R # <<>>
            /\ Len(R) < Len(B)
            /\ B[Len(B)].actual_size.w < block_size
            /\ B[Len(B)].visible_pixels
                  = B[Len(B)].actual_size.w * B[Len(B)].actual_size.h

----------------------------------------------------------------------------
(* The start Y of the call that returned the k-th kept row *)
RECURSIVE StartsOfPresent(_)
StartsOfPresent(i) ==
    IF i = 0 THEN <<>>
    ELSE IF calls[i].row = None THEN StartsOfPresent(i - 1)
    ELSE Append(StartsOfPresent(i - 1), calls[i].start_y)

(* C25: the kept rows are the rows returned, in the order of the calls,    *)
(* whose start Y ascends; their origin Y strictly increases; the k-th kept *)
(* row is named Row k however many strips before it were absent, and       *)
(* row_number is one more than the number of kept rows; and a rectangle's  *)
(* cell comes from its block's origin alone, not from the row's number.    *)
C25_RowOrderAndNames ==
    /\ row_number = Len(all_rows) + 1
    /\ Len(all_rows) = Len(PresentRows(Len(calls)))
    /\ \A k \in DOMAIN all_rows :
          /\ all_rows[k].row = PresentRows(Len(calls))[k]
          /\ all_rows[k].name = <<"Row", IntToStr(k)>>
    /\ \A i, j \in DOMAIN calls : i < j => calls[i].start_y < calls[j].start_y
    /\ \A j, k \in DOMAIN all_rows :
          j < k =>
              /\ StartsOfPresent(Len(calls))[j] < StartsOfPresent(Len(calls))[k]
              /\ all_rows[j].row.blocks[1].origin.y < all_rows[k].row.blocks[1].origin.y
              /\ all_rows[j].row.first_pixel.y < all_rows[k].row.first_pixel.y
    /\ svg_out # None =>
          /\ Len(SvgRects) = Len(FlatBlocks(1))
          /\ \A k \in DOMAIN SvgRects :
                /\ ParseInt(SvgRects[k].x)
                      = (FlatBlocks(1)[k].origin.x - LeftmostX) \div block_size
                /\ ParseInt(SvgRects[k].y)
                      = (FlatBlocks(1)[k].origin.y
                            - all_rows[1].row.blocks[1].origin.y) \div block_size

(* An SVG was written from two kept rows with an absent strip between      *)
(* them: the second row is named Row2 and its rectangles lie on grid row 2 *)
(* or below, not on grid row 1.                                            *)
C25_Witness ==
    /\ svg_out # None
    /\ Len(all_rows) >= 2
    /\ all_rows[2].name = <<"Row", <<"2">>>>
    /\ \E i \in 2 .. Len(calls) - 1 :
          /\ calls[i].row = None
          /\ calls[i - 1].row # None
          /\ calls[i + 1].row # None
    /\ \E k \in DOMAIN SvgRects : ParseInt(SvgRects[k].y) >= 2

----------------------------------------------------------------------------
(* One iteration of the strip loop of lines 317-323 *)
StripIteration == pc = "scan" /\ calls' # calls

(* C26: for every readable image and every --block-size the command line   *)
(* accepts, main's strip loop ends: `while current_y <= last_y` is left    *)
(* only by current_y passing last_y, so every iteration has to raise       *)
(* current_y; and once the loop is left with a block size N >= 1,          *)
(* scan_row_blocks has been called exactly floor((lastY - firstY) / N) + 1 *)
(* times, the k-th call at start Y firstY + (k - 1) * N.                   *)
C26_StripLoopTerminates ==
    /\ [][StripIteration => current_y' > current_y]_vars
    /\ []((LoopLeft /\ block_size >= 1) =>
             /\ Len(calls) = (last_coord[2] - coord[2]) \div block_size + 1
             /\ \A k \in DOMAIN calls :
                   calls[k].start_y = coord[2] + (k - 1) * block_size)

----------------------------------------------------------------------------
(* The grid cell of the k-th rectangle of the written SVG *)
CellOfRect(k) == <<ParseInt(SvgRects[k].x), ParseInt(SvgRects[k].y)>>

(* The place among the kept rows of the row the k-th rectangle comes from *)
RECURSIVE RowOfRect(_, _)
RowOfRect(k, i) ==
    IF k <= Len(all_rows[i].row.blocks) THEN i
    ELSE RowOfRect(k - Len(all_rows[i].row.blocks), i + 1)

(* C27: no two rectangles of a written SVG lie on the same grid cell:      *)
(* rectangles of blocks of one row have different x, and rectangles of     *)
(* blocks of different kept rows have different y.                         *)
C27_DistinctCells ==
    svg_out # None =>
        \A j, k \in DOMAIN SvgRects :
            j # k =>
                /\ CellOfRect(j) # CellOfRect(k)
                /\ RowOfRect(j, 1) = RowOfRect(k, 1) => CellOfRect(j)[1] # CellOfRect(k)[1]
                /\ RowOfRect(j, 1) # RowOfRect(k, 1) => CellOfRect(j)[2] # CellOfRect(k)[2]

----------------------------------------------------------------------------
(* Every block a call of scan_row_blocks has returned *)
ReturnedBlocks ==
    UNION {{Returned(calls[i])[j] : j \in DOMAIN Returned(calls[i])} :
              i \in DOMAIN calls}

(* The counts of a block's colour entries, in their order *)
EntryCounts(blk) == [e \in DOMAIN blk.color_counts |-> blk.color_counts[e].count]

(* C28: every block scan_row_blocks returns has visible_pixels >= 1;       *)
(* visible_pixels + skipped_pixels = actual_size.w * actual_size.h, the    *)
(* number of image pixels in its tile, at most block_size^2; the counts of *)
(* its colour entries sum to visible_pixels; unique_colors is the number   *)
(* of entries; each entry's coords are as many as its count, different     *)
(* from each other, inside the tile and of the entry's colour; and every   *)
(* entry's alpha is at or above the threshold.                             *)
C28_BlockAccounting ==
    \A blk \in ReturnedBlocks :
        /\ blk.visible_pixels >= 1
        /\ blk.visible_pixels + blk.skipped_pixels
              = blk.actual_size.w * blk.actual_size.h
        /\ blk.actual_size.w * blk.actual_size.h
              = Cardinality(Footprint(blk.origin.x, blk.origin.y, block_size))
        /\ blk.actual_size.w * blk.actual_size.h <= block_size * block_size
        /\ blk.visible_pixels = Cardinality(VisibleIn(blk))
        /\ Sum(EntryCounts(blk), 1) = blk.visible_pixels
        /\ blk.unique_colors = Len(blk.color_counts)
        /\ \A e \in DOMAIN blk.color_counts :
              /\ Len(blk.color_counts[e].coords) = blk.color_counts[e].count
              /\ blk.color_counts[e].a >= AlphaMin
              /\ \A n \in DOMAIN blk.color_counts[e].coords :
                    /\ blk.color_counts[e].coords[n]
                          \in Footprint(blk.origin.x, blk.origin.y, block_size)
                    /\ RgbaHex(img[blk.color_counts[e].coords[n]])
                          = blk.color_counts[e].rgba_hex
              /\ \A n, o \in DOMAIN blk.color_counts[e].coords :
                    n # o => blk.color_counts[e].coords[n] # blk.color_counts[e].coords[o]

(* A call returned a block that holds a transparent pixel and two colours, *)
(* one of them on two pixels, and a block cut by the image edge.           *)
C28_Witness ==
    /\ \E blk \in ReturnedBlocks :
          /\ blk.skipped_pixels >= 1
          /\ blk.unique_colors >= 2
          /\ blk.color_counts[1].count >= 2
    /\ \E blk \in ReturnedBlocks :
          blk.actual_size.w * blk.actual_size.h < block_size * block_size

----------------------------------------------------------------------------
(* A rectangle whose geometry is missing or malformed: x, y, width or      *)
(* height absent or not a number, or a width or height of zero or less.    *)
Malformed(rect) ==
    \/ \E v \in {rect.x, rect.y, rect.width, rect.height} :
          v = Absent \/ ~IsNumber(v)
    \/ ParseInt(rect.width) <= 0
    \/ ParseInt(rect.height) <= 0

WellFormed(rect) == ~Malformed(rect)

(* C21: for an SVG with a valid viewBox, _svg_to_editable_png returns an   *)
(* image, and the image is the one rendered from the same SVG with the     *)
(* rectangles of missing or malformed geometry removed.                    *)
C21_MalformedRectsSkipped ==
    pc = "rendered" =>
        /\ editable # None
        /\ editable[1]
              = svg_to_editable_png(
                    [svg_out[1] EXCEPT !.rects = SelectSeq(svg_out[1].rects, WellFormed)])

----------------------------------------------------------------------------
(* C22: when the SVG of a conversion was written and the comparison        *)
(* libraries are there, the conversion returns to its caller with the SVG  *)
(* result and with the editable raster saved, whether or not the cairosvg  *)
(* comparison raster could be made: no exception reaches the caller.       *)
ConversionOver ==
    op = "convert_to_perfect_pixelart" /\ phase \in {"returned", "raised"}

C22_RasterFailureContained ==
    (ConversionOver /\ main_exit = <<0>> /\ has_comparison)
        => /\ phase = "returned"
           /\ result # None
           /\ result[1].svg_file = <<"this image">>
           /\ session.editable_png_file = <<"this image">>

----------------------------------------------------------------------------
(* C29: _generate_svg returns True exactly when the png_to_svg subprocess  *)
(* of this call exited with code 0, also when a file of an earlier run is  *)
(* at output_svg; so the SVG a conversion records in its session or        *)
(* returns is never one made from another image.                           *)
C29_OnlyOwnSvg ==
    /\ [][(phase = "ready" /\ main_exit' # None)
             => (generate_svg(disk_svg, main_exit') <=> main_exit' = <<0>>)]_vars
    /\ [](ConversionOver =>
             /\ session.svg_file \in {None, <<"this image">>}
             /\ result # None => result[1].svg_file = <<"this image">>)

----------------------------------------------------------------------------
(* C23: two /api/convert requests for different stored images, handled at  *)
(* the same time by one server process, are independent: each one is       *)
(* answered as it is when handled alone, with 200 and with exactly its own *)
(* SVG, comparison raster and editable raster found in its own working     *)
(* directory and uploaded.                                                 *)
ConvertsOfStored(i) ==
    /\ requests[i].kind = "convert"
    /\ requests[i].image_name # None
    /\ requests[i].image_name[1] \in StoredImages

TwoConvertsOnly ==
    /\ Len(requests) = 2
    /\ ConvertsOfStored(1)
    /\ ConvertsOfStored(2)
    /\ requests[1].image_name # requests[2].image_name

AnsweredAsAlone(i) ==
    requests[i].status # 0
        => /\ requests[i].status = 200
           /\ requests[i].uploaded = Produced("convert", i)
           /\ Produced("convert", i) \subseteq cloud

C23_ConcurrentConvertsIndependent ==
    TwoConvertsOnly => AnsweredAsAlone(1) /\ AnsweredAsAlone(2)

----------------------------------------------------------------------------
(* C30: a /api/remove-bg request without image_name works on the editable  *)
(* raster of the most recent conversion only when that conversion was made *)
(* from the most recently generated image, and on the most recently        *)
(* generated image otherwise; with no generation and no conversion before  *)
(* it, it is answered with 400.                                            *)
Succeeded(i, kind) ==
    {j \in 1..(i - 1) : requests[j].kind = kind /\ requests[j].status = 200}

Latest(S) == CHOOSE j \in S : \A k \in S : k <= j

LatestImage(i) == <<ImageOf(Latest(Succeeded(i, "generate")))>>

ExpectedRemoveBgTarget(i) ==
    IF /\ Succeeded(i, "convert") # {}
       /\ requests[Latest(Succeeded(i, "convert"))].target = LatestImage(i)
    THEN <<EditableOf(Latest(Succeeded(i, "convert")))>>
    ELSE LatestImage(i)

C30_DefaultRemoveBgTarget ==
    \A i \in DOMAIN requests :
        (requests[i].kind = "remove-bg" /\ requests[i].image_name = None)
            => /\ (Succeeded(i, "generate") = {} /\ Succeeded(i, "convert") = {})
                    => requests[i].status = 400
               /\ Succeeded(i, "generate") # {}
                    => requests[i].target = ExpectedRemoveBgTarget(i)

====
